---- MODULE Spec2Model ----
(***************************************************************************)
(* ECG-Monitor gateway firmware: the packet encoder, the accumulation      *)
(* buffer and the command-driven streaming state machines of               *)
(*   - the single-mode BLE firmware  (real_time_streaming_ble.ino), and    *)
(*   - the dual-mode BLE firmware    (simple text / binary stream),        *)
(*   - the USB serial streamer and the serial 30 s recorder.               *)
(*                                                                         *)
(* Execution model.  loop() runs on the Arduino loop task.  The BLE        *)
(* callbacks (onConnect, onDisconnect, onWrite) run on the BLE host task:  *)
(* they are serialized with respect to each other (one task dispatches     *)
(* all GATT server events, so an event that arrives while a callback is    *)
(* still running is dispatched after it returns) and they interleave with  *)
(* loop() at the granularity of one access to shared memory per step.      *)
(* No lock, queue or atomic protects the shared globals in the source.     *)
(*                                                                         *)
(* Timing.  BLE events reach the device at least one connection interval   *)
(* (milliseconds) apart, and loop() makes no blocking call between         *)
(* testing the mode flags and acting on them: an iteration of loop() can   *)
(* overlap one callback, and an iteration that is in flight when a         *)
(* callback returns ends before the next callback is dispatched.  The      *)
(* stores of a callback follow each other within microseconds (the         *)
(* stabilization delay of startStreaming() apart): loop() does not begin   *)
(* a new iteration while the BLE host task is between two of them.         *)
(*                                                                         *)
(* Specifications.  Spec is the model above.  SpecSeq runs every callback  *)
(* and every iteration of loop() to completion, one at a time.  SpecEnc    *)
(* calls the packet builders once on inputs drawn from small sets.         *)
(* SpecTime is handler-level like SpecSeq, with the hardware timers as     *)
(* state and the two serial firmwares (the USB streamer and the 30 s       *)
(* recorder) next to the BLE ones; time passes between handlers, an        *)
(* iteration of loop() takes none.                                         *)
(*                                                                         *)
(* All integers of the model stay below 2^31: a 32-bit unsigned value of   *)
(* the program (micros(), last_sample_time) is a record of two 16-bit      *)
(* halves, and its arithmetic is done half by half modulo 2^32.            *)
(***************************************************************************)
EXTENDS Integers, Sequences, FiniteSets, TLC

\* ------------------------------------------------------------------------
\* Program constants
\* ------------------------------------------------------------------------
HEADER_1 == 170
HEADER_2 == 85
END_MARKER == 255
PACKET_SAMPLES == 10
SAMPLE_MASK == 4095
SIMPLE_INTERVAL_MS == 2000
STREAM_INTERVAL_MS == 40
MSG_BUF_SIZE == 64
SAMPLE_INTERVAL_US == 4000
\* startStreaming(): delay(500) three times and delay(3000), in microseconds
START_DELAY_US == 4500000
\* the 30 s recorder: FS * RECORDING_TIME_S
TOTAL_SAMPLES == 7500
\* half of an unsigned long: 2^16
W16 == 65536

U8 == 256

\* ------------------------------------------------------------------------
\* Bounds of the model
\* ------------------------------------------------------------------------
\* START commands in one run of the single-mode firmware
MaxStarts == 2
\* analogRead() calls in one run of the single-mode firmware
MaxReads == 20
\* clock advances in one run of the dual-mode firmware
MaxTicks == 2

\* handler-level model: conversions (samples built) after one START
MaxSeqSamples == 2570

\* handler-level model: value the text-line counter may reach
MaxSeqMessages == 3

\* handler-level model: packets in a row the transport fails to deliver
MaxLost == 2

\* 30 s recorder: recordings started in one run
MaxRecordings == 1

\* timed model: timer advances in one run
MaxTimeTicks == 3
\* timed model: commands handled in one run
MaxTimeCmds == 2
\* timed model: elapsed times are followed up to this many timer units
TimeCap == 10000

\* ------------------------------------------------------------------------
\* Machine arithmetic and the packet layout
\* ------------------------------------------------------------------------
BitAndMutClamp(a, b) == IF a > b THEN b ELSE a

RECURSIVE BitAnd(_, _)
\* C's a & b on non-negative integers, bit by bit
BitAnd(a, b) ==
    IF a = 0 \/ b = 0 THEN 0
    ELSE ((a % 2) * (b % 2)) + 2 * BitAnd(a \div 2, b \div 2)

\* the unsigned 32-bit test (now - last >= interval) for now, last < 2^31:
\* when last > now the difference wraps to 2^32 - (last - now) > 2^31
Elapsed(now, last, interval) == IF now >= last THEN now - last >= interval ELSE TRUE

LE16MutBig(v) == << (v \div 256) % 256, v % 256 >>

\* memcpy of a uint16_t on the little-endian target: low byte first
LE16(v) == << v % 256, (v \div 256) % 256 >>

LE32MutShort(t) == << t % 256, (t \div 256) % 256, (t \div 65536) % 256 >>

\* memcpy of a 32-bit timestamp on the little-endian target
LE32(t) == << t % 256, (t \div 256) % 256, (t \div 65536) % 256, (t \div 16777216) % 256 >>

\* packet_id++ on a uint8_t
U8Inc(id) == (id + 1) % U8

SkipZeroMutKeep(id) == id

\* if (packet_id == 0) packet_id = 1
SkipZero(id) == IF id = 0 THEN 1 ELSE id

\* the id sendPacket / buildBinaryPacket leave behind after using id
IncPacketId(id) == SkipZero(U8Inc(id))

\* memcpy(&packet[index], &sample, 2) for samples i..10, in order
RECURSIVE SampleBytes(_, _)
SampleBytes(fields, i) ==
    IF i > PACKET_SAMPLES THEN << >> ELSE LE16(fields[i]) \o SampleBytes(fields, i + 1)

\* the 28 bytes both images build: headers, id, timestamp, ten 16-bit fields, end marker
Frame(id, ts, fields) ==
    << HEADER_1, HEADER_2, id >> \o LE32(ts) \o SampleBytes(fields, 1) \o << END_MARKER >>

\* sendPacket(): the packet built from id, timestamp and data[0..9] & 0x0FFF
PacketBytes(id, ts, data) ==
    Frame(id, ts, [i \in 1..PACKET_SAMPLES |-> BitAnd(data[i], SAMPLE_MASK)])

\* the 16-bit field at sample slot i (1..10) of a packet
SampleField(bytes, i) == bytes[6 + 2 * i] + 256 * bytes[7 + 2 * i]

\* addADCSampleToBuffer(): if (sample_index >= PACKET_SAMPLES)
BufferFullMutEarly(index) == index >= PACKET_SAMPLES - 1
BufferFull(index) == index >= PACKET_SAMPLES

\* analogRead(): the n-th conversion of a run.  Every conversion yields a
\* distinct 12-bit value, so a packet identifies the conversions it carries
ADCReading(n) == n

\* ------------------------------------------------------------------------
\* unsigned long: 32-bit unsigned arithmetic on records [hi, lo] of 16-bit halves
\* ------------------------------------------------------------------------
\* the unsigned long with value n, for 0 <= n < 2^31
U32(n) == [hi |-> n \div W16, lo |-> n % W16]

\* a + n modulo 2^32, for 0 <= n < 2^31
Add32(a, n) ==
    LET lo == a.lo + (n % W16)
        hi == a.hi + (n \div W16) + (lo \div W16)
    IN  [hi |-> hi % W16, lo |-> lo % W16]

\* a - b modulo 2^32
Sub32(a, b) ==
    LET lo == a.lo - b.lo
        borrow == IF lo < 0 THEN 1 ELSE 0
        hi == a.hi - b.hi - borrow
    IN  [hi |-> (hi + W16) % W16, lo |-> (lo + W16) % W16]

\* a >= b on unsigned longs
Ge32(a, b) == a.hi > b.hi \/ (a.hi = b.hi /\ a.lo >= b.lo)

Elapsed32MutDirect(now, last, interval) == Ge32(now, Add32(last, interval))

\* micros() - last_sample_time >= interval, in unsigned long arithmetic
Elapsed32(now, last, interval) == Ge32(Sub32(now, last), U32(interval))

\* ------------------------------------------------------------------------
\* Serial command lines: sequences of character codes
\* ------------------------------------------------------------------------
\* "START"
START_LINE == << 83, 84, 65, 82, 84 >>

\* "STOP"
STOP_LINE == << 83, 84, 79, 80 >>

\* isspace()
IsSpace(c) == c = 32 \/ (c >= 9 /\ c <= 13)

RECURSIVE TrimLeft(_)
TrimLeft(s) == IF s # << >> /\ IsSpace(Head(s)) THEN TrimLeft(Tail(s)) ELSE s

RECURSIVE TrimRight(_)
TrimRight(s) ==
    IF s # << >> /\ IsSpace(s[Len(s)]) THEN TrimRight(SubSeq(s, 1, Len(s) - 1)) ELSE s

\* String::trim()
Trim(s) == TrimRight(TrimLeft(s))

\* t + d, followed up to TimeCap
Later(t, d) == IF t + d > TimeCap THEN TimeCap ELSE t + d

\* ------------------------------------------------------------------------
\* State
\* ------------------------------------------------------------------------
VARIABLES
    variant,              \* the firmware image that runs: "single" | "dual"
    \* globals of the firmware
    deviceConnected, streaming, packet_id, sample_index, packet_buffer,
    total_sample_count,
    simple_mode, stream_mode, simple_counter, stream_sample_counter,
    last_simple_time, last_stream_time,
    clock,                \* millis()
    ticks,                \* clock advances so far
    \* loop task: position and locals
    loop_pc, loop_now, loop_sample, loop_reg, loop_id, loop_ts, loop_samples,
    ble_pc,               \* BLE host task: position inside the running callback
    overlapped,           \* the iteration in flight was in flight when a callback returned
    \* history
    epoch,                \* START commands dispatched so far (single-mode)
    reads,                \* analogRead() calls so far
    start_reads,          \* analogRead() calls when the last START was dispatched
    reset_reads,          \* analogRead() calls when the last START reset the cursor
    session_tx,           \* packets sent since the last START was dispatched, up to 2
    last_stop,            \* the running / last callback is onWrite("STOP")
    after_stop,           \* the last START was dispatched right after a STOP
    armed,                \* a START* was dispatched since the last disconnect
    prev_id,              \* id of the last packet sent since a START*, STOP* or disconnect was
                          \* dispatched or a START* returned, -1 if none
    switch_phase,         \* "simple" since START_SIMPLE was dispatched, "switching" while a
                          \* START_STREAM that follows it runs, "switched" when that one has
                          \* returned, "idle" after any other mode command or a disconnect
    \* what the loop iteration in flight has handed to notify()
    tx,                   \* the payload, << >> if none
    tx_kind,              \* "none" | "packet" | "text" | "serial"
    iter_text, iter_packet,
    \* timed model
    timer,                \* micros(), an unsigned long
    last_sample_time,     \* static of loop() in the single-mode image, global of the
                          \* serial firmwares
    is_recording, sample_count,   \* globals of the serial firmwares
    cmd,                  \* the payload of the last command handled, "none" if none
    cmds,                 \* commands handled so far
    age,                  \* time since the instant last_sample_time holds, [hi, lo] with
                          \* hi = W16 when it is 2^32 or more
    since_start,          \* time since the last START* was handled, up to TimeCap
    since_sample,         \* time since the last sample, packet or line of the mode
                          \* started by the last START*, up to TimeCap, -1 if none
    fired,                \* the handler that ran last took a sample or sent a packet or line
    session_lines,        \* text lines handed over since the last START_SIMPLE was dispatched
    delivered_id,         \* id of the last packet of the session the transport delivered, or -1
    undelivered,          \* packets handed over since then that the transport did not deliver
    host_connected,       \* USB streamer: the host still holds the serial connection open
    packets,              \* synthetic streamer: number of the packet being filled
    bufferIndex,          \* next free slot of buffer
    buffer,               \* float buffer[PACKET_SIZE], slots 0..9
    sampleCounter,        \* index of the next table entry
    at_read               \* sampleCounter, packets and bufferIndex when the table was last read

vars == << variant, deviceConnected, streaming, packet_id, sample_index, packet_buffer,
           total_sample_count, simple_mode, stream_mode, simple_counter,
           stream_sample_counter, last_simple_time, last_stream_time, clock, ticks,
           loop_pc, loop_now, loop_sample, loop_reg, loop_id, loop_ts, loop_samples,
           ble_pc, overlapped, epoch, reads, start_reads, reset_reads,
           session_tx, last_stop,
           after_stop, armed, prev_id, switch_phase, tx, tx_kind,
           iter_text, iter_packet,
           timer, last_sample_time, is_recording, sample_count, cmd, cmds, age,
           since_start, since_sample, fired,
           session_lines, delivered_id, undelivered, host_connected,
           packets, bufferIndex, buffer, sampleCounter, at_read >>

\* commands the host may write to the command characteristic
Commands == { "", "START", "STOP", "start", "START_SIMPLE", "STOP_SIMPLE",
              "START_STREAM", "STOP_STREAM" }

\* state when setup() returns, but for the packet builder's inputs
InitRest ==
    /\ deviceConnected = FALSE
    /\ streaming = FALSE
    /\ sample_index = 0
    /\ total_sample_count = 0
    /\ simple_mode = FALSE
    /\ stream_mode = FALSE
    /\ simple_counter = 1
    /\ last_simple_time = 0
    /\ last_stream_time = 0
    /\ ticks = 0
    /\ loop_pc = "top"
    /\ loop_now = 0
    /\ loop_sample = 0
    /\ loop_reg = 0
    /\ loop_id = 0
    /\ loop_ts = 0
    /\ loop_samples = << >>
    /\ ble_pc = "idle"
    /\ overlapped = FALSE
    /\ epoch = 0
    /\ reads = 0
    /\ start_reads = 0
    /\ reset_reads = 0
    /\ session_tx = 0
    /\ last_stop = FALSE
    /\ after_stop = FALSE
    /\ armed = FALSE
    /\ prev_id = -1
    /\ switch_phase = "idle"
    /\ tx = << >>
    /\ tx_kind = "none"
    /\ iter_text = FALSE
    /\ iter_packet = FALSE
    /\ last_sample_time = U32(0)
    /\ is_recording = FALSE
    /\ sample_count = 0
    /\ cmd = "none"
    /\ cmds = 0
    /\ since_start = 0
    /\ since_sample = -1
    /\ fired = FALSE
    /\ session_lines = 0
    /\ delivered_id = -1
    /\ undelivered = 0
    /\ host_connected = TRUE
    /\ packets = 1
    /\ bufferIndex = 0
    /\ buffer = [i \in 0..9 |-> 0]
    /\ sampleCounter = 0
    /\ at_read = [sampleCounter |-> -1, packets |-> 0, bufferIndex |-> -1]

\* state common to both images when setup() returns
InitCommon ==
    /\ InitRest
    /\ packet_buffer = [i \in 1..PACKET_SAMPLES |-> 0]
    /\ stream_sample_counter = 1
    /\ clock = 0
    /\ timer = U32(0)
    /\ age = U32(0)

\* globals of real_time_streaming_ble.ino
InitSingle == variant = "single" /\ packet_id = 0 /\ InitCommon

\* globals of the dual-mode image
InitDual == variant = "dual" /\ packet_id = 1 /\ InitCommon

Init == InitSingle \/ InitDual

\* min(n + 1, cap)
UpTo(n, cap) == IF n < cap THEN n + 1 ELSE cap

\* a callback returns: an iteration of loop() that is in flight now ends
\* before the BLE host task dispatches its next event
Returns == overlapped' = (loop_pc # "top")

\* the BLE host task is between two stores of a callback
InCallback == ble_pc \notin { "idle", "start_delay" }

\* callbacks that begin or end a streaming session
Boundary == { "disconnect", "START", "STOP", "START_SIMPLE", "STOP_SIMPLE",
              "START_STREAM", "STOP_STREAM" }

\* the BLE host task dispatches callback cb
Dispatch(cb) ==
    /\ ble_pc = "idle"
    /\ ~overlapped
    /\ last_stop' = (cb = "STOP")
    /\ prev_id' = IF cb \in Boundary THEN -1 ELSE prev_id
    /\ session_lines' = IF cb = "START_SIMPLE" THEN 0 ELSE session_lines

\* an iteration of loop() ends: its locals die
IterationEnds ==
    /\ loop_pc' = "top"
    /\ overlapped' = FALSE
    /\ loop_now' = 0
    /\ loop_sample' = 0
    /\ loop_reg' = 0
    /\ loop_id' = 0
    /\ loop_ts' = 0
    /\ loop_samples' = << >>
    /\ tx' = << >>
    /\ tx_kind' = "none"
    /\ iter_text' = FALSE
    /\ iter_packet' = FALSE

\* loop() moves on to pc
Goes(pc) ==
    /\ loop_pc' = pc
    /\ UNCHANGED << overlapped, loop_now, loop_sample, loop_reg, loop_id, loop_ts,
                    loop_samples, tx, tx_kind, iter_text, iter_packet >>

\* pDataChar->setValue(packet) and notify() of a binary packet (the acquisition
\* history is kept for the single-mode image only)
NotifyPacket(bytes) ==
    /\ tx' = bytes
    /\ tx_kind' = "packet"
    /\ session_tx' = IF variant = "single" THEN UpTo(session_tx, 2) ELSE session_tx
    /\ prev_id' = bytes[3]
    /\ iter_packet' = TRUE
    /\ since_sample' = 0

\* pDataChar->setValue(msgBuf, len) and notify() of a text line
NotifyText(chars) ==
    /\ tx' = chars
    /\ tx_kind' = "text"
    /\ iter_text' = TRUE
    /\ session_lines' = session_lines + 1
    /\ since_sample' = 0

\* ------------------------------------------------------------------------
\* Single-mode BLE firmware: BLE host task
\* ------------------------------------------------------------------------
\* ECGServerCallbacks::onConnect
SM_OnConnect ==
    /\ variant = "single"
    /\ ~deviceConnected
    /\ Dispatch("connect")
    /\ deviceConnected' = TRUE
    /\ Returns
    /\ UNCHANGED << variant, streaming, packet_id, sample_index, packet_buffer,
                    total_sample_count, simple_mode, stream_mode, simple_counter,
                    stream_sample_counter, last_simple_time, last_stream_time, clock,
                    ticks, loop_pc, loop_now, loop_sample, loop_reg, loop_id,
                    loop_ts, loop_samples, ble_pc, epoch, reads, start_reads,
                    reset_reads, session_tx, after_stop, armed, switch_phase, tx,
                    tx_kind, iter_text, iter_packet, timer, last_sample_time,
                    is_recording, sample_count, cmd, cmds, age, since_start,
                    since_sample, fired, delivered_id, undelivered, host_connected,
                    packets, bufferIndex, buffer, sampleCounter, at_read >>

\* ECGServerCallbacks::onDisconnect: deviceConnected = false
SM_OnDisconnect ==
    /\ variant = "single"
    /\ deviceConnected
    /\ Dispatch("disconnect")
    /\ deviceConnected' = FALSE
    /\ armed' = FALSE
    /\ ble_pc' = "disc_streaming"
    /\ UNCHANGED << variant, streaming, packet_id, sample_index, packet_buffer,
                    total_sample_count, simple_mode, stream_mode, simple_counter,
                    stream_sample_counter, last_simple_time, last_stream_time, clock,
                    ticks, loop_pc, loop_now, loop_sample, loop_reg, loop_id,
                    loop_ts, loop_samples, overlapped, epoch, reads, start_reads,
                    reset_reads, session_tx, after_stop, switch_phase, tx, tx_kind,
                    iter_text, iter_packet, timer, last_sample_time, is_recording,
                    sample_count, cmd, cmds, age, since_start, since_sample, fired,
                    delivered_id, undelivered, host_connected, packets, bufferIndex,
                    buffer, sampleCounter, at_read >>

SM_OnDisconnectStreamingMutKeep ==
    /\ variant = "single"
    /\ ble_pc = "disc_streaming"
    /\ ble_pc' = "idle"
    /\ Returns
    /\ UNCHANGED << variant, deviceConnected, streaming, packet_id, sample_index,
                    packet_buffer, total_sample_count, simple_mode, stream_mode,
                    simple_counter, stream_sample_counter, last_simple_time,
                    last_stream_time, clock, ticks, loop_pc, loop_now, loop_sample,
                    loop_reg, loop_id, loop_ts, loop_samples, epoch, reads,
                    start_reads, reset_reads, session_tx, last_stop, after_stop,
                    armed, prev_id, switch_phase, tx, tx_kind, iter_text,
                    iter_packet, timer, last_sample_time, is_recording, sample_count,
                    cmd, cmds, age, since_start, since_sample, fired, session_lines,
                    delivered_id, undelivered, host_connected, packets, bufferIndex,
                    buffer, sampleCounter, at_read >>

\* ECGServerCallbacks::onDisconnect: streaming = false, return
SM_OnDisconnectStreaming ==
    /\ variant = "single"
    /\ ble_pc = "disc_streaming"
    /\ streaming' = FALSE
    /\ ble_pc' = "idle"
    /\ Returns
    /\ UNCHANGED << variant, deviceConnected, packet_id, sample_index, packet_buffer,
                    total_sample_count, simple_mode, stream_mode, simple_counter,
                    stream_sample_counter, last_simple_time, last_stream_time, clock,
                    ticks, loop_pc, loop_now, loop_sample, loop_reg, loop_id,
                    loop_ts, loop_samples, epoch, reads, start_reads, reset_reads,
                    session_tx, last_stop, after_stop, armed, prev_id, switch_phase,
                    tx, tx_kind, iter_text, iter_packet, timer, last_sample_time,
                    is_recording, sample_count, cmd, cmds, age, since_start,
                    since_sample, fired, session_lines, delivered_id, undelivered,
                    host_connected, packets, bufferIndex, buffer, sampleCounter,
                    at_read >>

SM_TokenMutNoCase(rx) ==
    IF rx \in { "START", "start" } THEN "START" ELSE IF rx = "STOP" THEN "STOP" ELSE "ignored"

\* how CommandCallbacks::onWrite of the single-mode image reads rxValue
SM_Token(rx) ==
    IF rx = "START" THEN "START" ELSE IF rx = "STOP" THEN "STOP" ELSE "ignored"

\* CommandCallbacks::onWrite: empty or unrecognized payload
SM_OnWriteIgnored(rx) ==
    /\ variant = "single"
    /\ deviceConnected
    /\ SM_Token(rx) = "ignored"
    /\ Dispatch("ignored")
    /\ Returns
    /\ UNCHANGED << variant, deviceConnected, streaming, packet_id, sample_index,
                    packet_buffer, total_sample_count, simple_mode, stream_mode,
                    simple_counter, stream_sample_counter, last_simple_time,
                    last_stream_time, clock, ticks, loop_pc, loop_now, loop_sample,
                    loop_reg, loop_id, loop_ts, loop_samples, ble_pc, epoch, reads,
                    start_reads, reset_reads, session_tx, after_stop, armed,
                    switch_phase, tx, tx_kind, iter_text, iter_packet, timer,
                    last_sample_time, is_recording, sample_count, cmd, cmds, age,
                    since_start, since_sample, fired, delivered_id, undelivered,
                    host_connected, packets, bufferIndex, buffer, sampleCounter,
                    at_read >>

\* CommandCallbacks::onWrite: "STOP"
SM_OnWriteStop(rx) ==
    /\ variant = "single"
    /\ deviceConnected
    /\ SM_Token(rx) = "STOP"
    /\ Dispatch("STOP")
    /\ streaming' = FALSE
    /\ Returns
    /\ UNCHANGED << variant, deviceConnected, packet_id, sample_index, packet_buffer,
                    total_sample_count, simple_mode, stream_mode, simple_counter,
                    stream_sample_counter, last_simple_time, last_stream_time, clock,
                    ticks, loop_pc, loop_now, loop_sample, loop_reg, loop_id,
                    loop_ts, loop_samples, ble_pc, epoch, reads, start_reads,
                    reset_reads, session_tx, after_stop, armed, switch_phase, tx,
                    tx_kind, iter_text, iter_packet, timer, last_sample_time,
                    is_recording, sample_count, cmd, cmds, age, since_start,
                    since_sample, fired, delivered_id, undelivered, host_connected,
                    packets, bufferIndex, buffer, sampleCounter, at_read >>

\* CommandCallbacks::onWrite: "START", startStreaming() begins: packet_id = 1
SM_OnWriteStart(rx) ==
    /\ variant = "single"
    /\ deviceConnected
    /\ SM_Token(rx) = "START"
    /\ epoch < MaxStarts
    /\ Dispatch("START")
    /\ packet_id' = 1
    /\ ble_pc' = "start_index"
    /\ epoch' = epoch + 1
    /\ start_reads' = reads
    /\ session_tx' = 0
    /\ after_stop' = last_stop
    /\ armed' = TRUE
    /\ UNCHANGED << variant, deviceConnected, streaming, sample_index, packet_buffer,
                    total_sample_count, simple_mode, stream_mode, simple_counter,
                    stream_sample_counter, last_simple_time, last_stream_time, clock,
                    ticks, loop_pc, loop_now, loop_sample, loop_reg, loop_id,
                    loop_ts, loop_samples, overlapped, reads, reset_reads,
                    switch_phase, tx, tx_kind, iter_text, iter_packet, timer,
                    last_sample_time, is_recording, sample_count, cmd, cmds, age,
                    since_start, since_sample, fired, delivered_id, undelivered,
                    host_connected, packets, bufferIndex, buffer, sampleCounter,
                    at_read >>

SM_StartIndexMutKeep ==
    /\ variant = "single"
    /\ ble_pc = "start_index"
    /\ total_sample_count' = 0
    /\ ble_pc' = "start_delay"
    /\ reset_reads' = reads
    /\ Returns
    /\ UNCHANGED << variant, deviceConnected, streaming, packet_id, sample_index,
                    packet_buffer, simple_mode, stream_mode, simple_counter,
                    stream_sample_counter, last_simple_time, last_stream_time, clock,
                    ticks, loop_pc, loop_now, loop_sample, loop_reg, loop_id,
                    loop_ts, loop_samples, epoch, reads, start_reads, session_tx,
                    last_stop, after_stop, armed, prev_id, switch_phase, tx, tx_kind,
                    iter_text, iter_packet, timer, last_sample_time, is_recording,
                    sample_count, cmd, cmds, age, since_start, since_sample, fired,
                    session_lines, delivered_id, undelivered, host_connected,
                    packets, bufferIndex, buffer, sampleCounter, at_read >>

\* startStreaming(): sample_index = 0, total_sample_count = 0; the LED blinks and
\* the stabilization delay begins (delay() yields, loop() keeps running)
SM_StartIndex ==
    /\ variant = "single"
    /\ ble_pc = "start_index"
    /\ sample_index' = 0
    /\ total_sample_count' = 0
    /\ ble_pc' = "start_delay"
    /\ reset_reads' = reads
    /\ Returns
    /\ UNCHANGED << variant, deviceConnected, streaming, packet_id, packet_buffer,
                    simple_mode, stream_mode, simple_counter, stream_sample_counter,
                    last_simple_time, last_stream_time, clock, ticks, loop_pc,
                    loop_now, loop_sample, loop_reg, loop_id, loop_ts, loop_samples,
                    epoch, reads, start_reads, session_tx, last_stop, after_stop,
                    armed, prev_id, switch_phase, tx, tx_kind, iter_text,
                    iter_packet, timer, last_sample_time, is_recording, sample_count,
                    cmd, cmds, age, since_start, since_sample, fired, session_lines,
                    delivered_id, undelivered, host_connected, packets, bufferIndex,
                    buffer, sampleCounter, at_read >>

\* startStreaming(): the delays are over, streaming = true; onWrite returns
SM_StartEnable ==
    /\ variant = "single"
    /\ ble_pc = "start_delay"
    /\ ~overlapped
    /\ streaming' = TRUE
    /\ ble_pc' = "idle"
    /\ prev_id' = -1
    /\ since_start' = 0
    /\ since_sample' = -1
    /\ Returns
    /\ UNCHANGED << variant, deviceConnected, packet_id, sample_index, packet_buffer,
                    total_sample_count, simple_mode, stream_mode, simple_counter,
                    stream_sample_counter, last_simple_time, last_stream_time, clock,
                    ticks, loop_pc, loop_now, loop_sample, loop_reg, loop_id,
                    loop_ts, loop_samples, epoch, reads, start_reads, reset_reads,
                    session_tx, last_stop, after_stop, armed, switch_phase, tx,
                    tx_kind, iter_text, iter_packet, timer, last_sample_time,
                    is_recording, sample_count, cmd, cmds, age, fired, session_lines,
                    delivered_id, undelivered, host_connected, packets, bufferIndex,
                    buffer, sampleCounter, at_read >>

SM_Ble ==
    \/ SM_OnConnect
    \/ SM_OnDisconnect
    \/ SM_OnDisconnectStreaming
    \/ \E rx \in Commands : SM_OnWriteIgnored(rx)
    \/ \E rx \in Commands : SM_OnWriteStop(rx)
    \/ \E rx \in Commands : SM_OnWriteStart(rx)
    \/ SM_StartIndex
    \/ SM_StartEnable

\* ------------------------------------------------------------------------
\* Single-mode BLE firmware: loop task
\* ------------------------------------------------------------------------
\* loop(): if (deviceConnected)
SM_LoopConnected ==
    /\ variant = "single"
    /\ loop_pc = "top"
    /\ ~InCallback
    /\ IF deviceConnected THEN Goes("streaming") ELSE IterationEnds
    /\ UNCHANGED << variant, deviceConnected, streaming, packet_id, sample_index,
                    packet_buffer, total_sample_count, simple_mode, stream_mode,
                    simple_counter, stream_sample_counter, last_simple_time,
                    last_stream_time, clock, ticks, ble_pc, epoch, reads,
                    start_reads, reset_reads, session_tx, last_stop, after_stop,
                    armed, prev_id, switch_phase, timer, last_sample_time,
                    is_recording, sample_count, cmd, cmds, age, since_start,
                    since_sample, fired, session_lines, delivered_id, undelivered,
                    host_connected, packets, bufferIndex, buffer, sampleCounter,
                    at_read >>

\* loop(): if (streaming), if (micros() - last_sample_time >= 4000).  micros() is
\* an input and last_sample_time is private to this test: both outcomes are possible
SM_LoopStreaming ==
    /\ variant = "single"
    /\ loop_pc = "streaming"
    /\ \E due \in BOOLEAN :
          IF streaming /\ due /\ reads < MaxReads THEN Goes("adc") ELSE IterationEnds
    /\ UNCHANGED << variant, deviceConnected, streaming, packet_id, sample_index,
                    packet_buffer, total_sample_count, simple_mode, stream_mode,
                    simple_counter, stream_sample_counter, last_simple_time,
                    last_stream_time, clock, ticks, ble_pc, epoch, reads,
                    start_reads, reset_reads, session_tx, last_stop, after_stop,
                    armed, prev_id, switch_phase, timer, last_sample_time,
                    is_recording, sample_count, cmd, cmds, age, since_start,
                    since_sample, fired, session_lines, delivered_id, undelivered,
                    host_connected, packets, bufferIndex, buffer, sampleCounter,
                    at_read >>

\* addADCSampleToBuffer(): sample = analogRead(), total_sample_count++
SM_LoopAdc ==
    /\ variant = "single"
    /\ loop_pc = "adc"
    /\ loop_sample' = ADCReading(reads + 1)
    /\ total_sample_count' = total_sample_count + 1
    /\ loop_pc' = "index"
    /\ reads' = reads + 1
    /\ UNCHANGED << variant, deviceConnected, streaming, packet_id, sample_index,
                    packet_buffer, simple_mode, stream_mode, simple_counter,
                    stream_sample_counter, last_simple_time, last_stream_time, clock,
                    ticks, loop_now, loop_reg, loop_id, loop_ts, loop_samples,
                    ble_pc, overlapped, epoch, start_reads, reset_reads, session_tx,
                    last_stop, after_stop, armed, prev_id, switch_phase, tx, tx_kind,
                    iter_text, iter_packet, timer, last_sample_time, is_recording,
                    sample_count, cmd, cmds, age, since_start, since_sample, fired,
                    session_lines, delivered_id, undelivered, host_connected,
                    packets, bufferIndex, buffer, sampleCounter, at_read >>

\* addADCSampleToBuffer(): the load of sample_index in packet_buffer[sample_index++]
SM_LoopIndex ==
    /\ variant = "single"
    /\ loop_pc = "index"
    /\ loop_reg' = sample_index
    /\ loop_pc' = "store"
    /\ UNCHANGED << variant, deviceConnected, streaming, packet_id, sample_index,
                    packet_buffer, total_sample_count, simple_mode, stream_mode,
                    simple_counter, stream_sample_counter, last_simple_time,
                    last_stream_time, clock, ticks, loop_now, loop_sample, loop_id,
                    loop_ts, loop_samples, ble_pc, overlapped, epoch, reads,
                    start_reads, reset_reads, session_tx, last_stop, after_stop,
                    armed, prev_id, switch_phase, tx, tx_kind, iter_text,
                    iter_packet, timer, last_sample_time, is_recording, sample_count,
                    cmd, cmds, age, since_start, since_sample, fired, session_lines,
                    delivered_id, undelivered, host_connected, packets, bufferIndex,
                    buffer, sampleCounter, at_read >>

\* addADCSampleToBuffer(): packet_buffer[i] = sample and the store of i + 1
SM_LoopStore ==
    /\ variant = "single"
    /\ loop_pc = "store"
    /\ packet_buffer' = [packet_buffer EXCEPT ![loop_reg + 1] = loop_sample]
    /\ sample_index' = U8Inc(loop_reg)
    /\ loop_reg' = U8Inc(loop_reg)
    /\ loop_pc' = "full"
    /\ UNCHANGED << variant, deviceConnected, streaming, packet_id,
                    total_sample_count, simple_mode, stream_mode, simple_counter,
                    stream_sample_counter, last_simple_time, last_stream_time, clock,
                    ticks, loop_now, loop_sample, loop_id, loop_ts, loop_samples,
                    ble_pc, overlapped, epoch, reads, start_reads, reset_reads,
                    session_tx, last_stop, after_stop, armed, prev_id, switch_phase,
                    tx, tx_kind, iter_text, iter_packet, timer, last_sample_time,
                    is_recording, sample_count, cmd, cmds, age, since_start,
                    since_sample, fired, session_lines, delivered_id, undelivered,
                    host_connected, packets, bufferIndex, buffer, sampleCounter,
                    at_read >>

\* addADCSampleToBuffer(): if (sample_index >= PACKET_SAMPLES), on the value just stored
\* or on a fresh load, as the compiler chooses; when it is not, loop() stores
\* last_sample_time and the iteration ends
SM_LoopFull ==
    /\ variant = "single"
    /\ loop_pc = "full"
    /\ \E index \in { sample_index, loop_reg } :
          IF BufferFull(index) THEN Goes("id") ELSE IterationEnds
    /\ UNCHANGED << variant, deviceConnected, streaming, packet_id, sample_index,
                    packet_buffer, total_sample_count, simple_mode, stream_mode,
                    simple_counter, stream_sample_counter, last_simple_time,
                    last_stream_time, clock, ticks, ble_pc, epoch, reads,
                    start_reads, reset_reads, session_tx, last_stop, after_stop,
                    armed, prev_id, switch_phase, timer, last_sample_time,
                    is_recording, sample_count, cmd, cmds, age, since_start,
                    since_sample, fired, session_lines, delivered_id, undelivered,
                    host_connected, packets, bufferIndex, buffer, sampleCounter,
                    at_read >>

\* sendPacket(): packet[2] = packet_id, the load of packet_id
SM_LoopId ==
    /\ variant = "single"
    /\ loop_pc = "id"
    /\ loop_id' = packet_id
    /\ loop_pc' = "id_inc"
    /\ UNCHANGED << variant, deviceConnected, streaming, packet_id, sample_index,
                    packet_buffer, total_sample_count, simple_mode, stream_mode,
                    simple_counter, stream_sample_counter, last_simple_time,
                    last_stream_time, clock, ticks, loop_now, loop_sample, loop_reg,
                    loop_ts, loop_samples, ble_pc, overlapped, epoch, reads,
                    start_reads, reset_reads, session_tx, last_stop, after_stop,
                    armed, prev_id, switch_phase, tx, tx_kind, iter_text,
                    iter_packet, timer, last_sample_time, is_recording, sample_count,
                    cmd, cmds, age, since_start, since_sample, fired, session_lines,
                    delivered_id, undelivered, host_connected, packets, bufferIndex,
                    buffer, sampleCounter, at_read >>

\* sendPacket(): the store of packet_id++, on the value loaded for packet[2] or on a
\* fresh load, as the compiler chooses
SM_LoopIdInc ==
    /\ variant = "single"
    /\ loop_pc = "id_inc"
    /\ \E id \in { loop_id, packet_id } : packet_id' = U8Inc(id)
    /\ loop_pc' = "notify"
    /\ UNCHANGED << variant, deviceConnected, streaming, sample_index, packet_buffer,
                    total_sample_count, simple_mode, stream_mode, simple_counter,
                    stream_sample_counter, last_simple_time, last_stream_time, clock,
                    ticks, loop_now, loop_sample, loop_reg, loop_id, loop_ts,
                    loop_samples, ble_pc, overlapped, epoch, reads, start_reads,
                    reset_reads, session_tx, last_stop, after_stop, armed, prev_id,
                    switch_phase, tx, tx_kind, iter_text, iter_packet, timer,
                    last_sample_time, is_recording, sample_count, cmd, cmds, age,
                    since_start, since_sample, fired, session_lines, delivered_id,
                    undelivered, host_connected, packets, bufferIndex, buffer,
                    sampleCounter, at_read >>

\* sendPacket(): if (packet_id == 0) packet_id = 1; timestamp = millis(), the
\* sample loop, the end marker, setValue() and notify()
SM_LoopNotify ==
    /\ variant = "single"
    /\ loop_pc = "notify"
    /\ packet_id' = SkipZero(packet_id)
    /\ NotifyPacket(PacketBytes(loop_id, clock, packet_buffer))
    /\ loop_pc' = "reset"
    /\ UNCHANGED << variant, deviceConnected, streaming, sample_index, packet_buffer,
                    total_sample_count, simple_mode, stream_mode, simple_counter,
                    stream_sample_counter, last_simple_time, last_stream_time, clock,
                    ticks, loop_now, loop_sample, loop_reg, loop_id, loop_ts,
                    loop_samples, ble_pc, overlapped, epoch, reads, start_reads,
                    reset_reads, last_stop, after_stop, armed, switch_phase,
                    iter_text, timer, last_sample_time, is_recording, sample_count,
                    cmd, cmds, age, since_start, fired, session_lines, delivered_id,
                    undelivered, host_connected, packets, bufferIndex, buffer,
                    sampleCounter, at_read >>

\* addADCSampleToBuffer(): sample_index = 0; loop() then stores
\* last_sample_time and the iteration ends
SM_LoopReset ==
    /\ variant = "single"
    /\ loop_pc = "reset"
    /\ sample_index' = 0
    /\ IterationEnds
    /\ UNCHANGED << variant, deviceConnected, streaming, packet_id, packet_buffer,
                    total_sample_count, simple_mode, stream_mode, simple_counter,
                    stream_sample_counter, last_simple_time, last_stream_time, clock,
                    ticks, ble_pc, epoch, reads, start_reads, reset_reads,
                    session_tx, last_stop, after_stop, armed, prev_id, switch_phase,
                    timer, last_sample_time, is_recording, sample_count, cmd, cmds,
                    age, since_start, since_sample, fired, session_lines,
                    delivered_id, undelivered, host_connected, packets, bufferIndex,
                    buffer, sampleCounter, at_read >>

SM_Loop ==
    \/ SM_LoopConnected
    \/ SM_LoopStreaming
    \/ SM_LoopAdc
    \/ SM_LoopIndex
    \/ SM_LoopStore
    \/ SM_LoopFull
    \/ SM_LoopId
    \/ SM_LoopIdInc
    \/ SM_LoopNotify
    \/ SM_LoopReset

\* ------------------------------------------------------------------------
\* Dual-mode BLE firmware
\* ------------------------------------------------------------------------
\* snprintf("%lu"): the decimal digits of n as character codes
RECURSIVE Digits(_)
Digits(n) == IF n < 10 THEN << 48 + n >> ELSE Digits(n \div 10) \o << 48 + (n % 10) >>

\* "Message "
MSG_PREFIX == << 77, 101, 115, 115, 97, 103, 101, 32 >>

\* ": Received\n"
MSG_SUFFIX == << 58, 32, 82, 101, 99, 101, 105, 118, 101, 100, 10 >>

\* the first n elements of s
Take(s, n) == IF Len(s) <= n THEN s ELSE SubSeq(s, 1, n)

\* buildSimpleMessage(): the bytes left in the buffer, cut at buf_size - 1
buildSimpleMessage(buf_size, msg_index) ==
    IF buf_size = 0 THEN << >>
    ELSE Take(MSG_PREFIX \o Digits(msg_index) \o MSG_SUFFIX, buf_size - 1)

\* buildBinaryPacket(): samples first..last of the sample loop, taken from counter value c
CounterSamples(c, first, last) ==
    [i \in 1..(last - first + 1) |-> BitAnd(c + i - 1, SAMPLE_MASK)]

\* the instants at which millis() is seen to change: the clock advances by one
\* streaming interval, then by one message interval, and so on
TickStep(n) == IF n % 2 = 0 THEN STREAM_INTERVAL_MS ELSE SIMPLE_INTERVAL_MS

\* millis() advances
DM_Tick ==
    /\ variant = "dual"
    /\ ticks < MaxTicks
    /\ clock' = clock + TickStep(ticks)
    /\ ticks' = ticks + 1
    /\ since_start' = Later(since_start, TickStep(ticks))
    /\ since_sample' = IF since_sample = -1 THEN -1 ELSE Later(since_sample, TickStep(ticks))
    /\ UNCHANGED << variant, deviceConnected, streaming, packet_id, sample_index,
                    packet_buffer, total_sample_count, simple_mode, stream_mode,
                    simple_counter, stream_sample_counter, last_simple_time,
                    last_stream_time, loop_pc, loop_now, loop_sample, loop_reg,
                    loop_id, loop_ts, loop_samples, ble_pc, overlapped, epoch, reads,
                    start_reads, reset_reads, session_tx, last_stop, after_stop,
                    armed, prev_id, switch_phase, tx, tx_kind, iter_text,
                    iter_packet, timer, last_sample_time, is_recording, sample_count,
                    cmd, cmds, age, fired, session_lines, delivered_id, undelivered,
                    host_connected, packets, bufferIndex, buffer, sampleCounter,
                    at_read >>

\* ECGServerCallbacks::onConnect
DM_OnConnect ==
    /\ variant = "dual"
    /\ ~deviceConnected
    /\ Dispatch("connect")
    /\ deviceConnected' = TRUE
    /\ Returns
    /\ UNCHANGED << variant, streaming, packet_id, sample_index, packet_buffer,
                    total_sample_count, simple_mode, stream_mode, simple_counter,
                    stream_sample_counter, last_simple_time, last_stream_time, clock,
                    ticks, loop_pc, loop_now, loop_sample, loop_reg, loop_id,
                    loop_ts, loop_samples, ble_pc, epoch, reads, start_reads,
                    reset_reads, session_tx, after_stop, armed, switch_phase, tx,
                    tx_kind, iter_text, iter_packet, timer, last_sample_time,
                    is_recording, sample_count, cmd, cmds, age, since_start,
                    since_sample, fired, delivered_id, undelivered, host_connected,
                    packets, bufferIndex, buffer, sampleCounter, at_read >>

\* ECGServerCallbacks::onDisconnect: deviceConnected = false
DM_OnDisconnect ==
    /\ variant = "dual"
    /\ deviceConnected
    /\ Dispatch("disconnect")
    /\ deviceConnected' = FALSE
    /\ armed' = FALSE
    /\ switch_phase' = "idle"
    /\ ble_pc' = "disc_simple"
    /\ UNCHANGED << variant, streaming, packet_id, sample_index, packet_buffer,
                    total_sample_count, simple_mode, stream_mode, simple_counter,
                    stream_sample_counter, last_simple_time, last_stream_time, clock,
                    ticks, loop_pc, loop_now, loop_sample, loop_reg, loop_id,
                    loop_ts, loop_samples, overlapped, epoch, reads, start_reads,
                    reset_reads, session_tx, after_stop, tx, tx_kind, iter_text,
                    iter_packet, timer, last_sample_time, is_recording, sample_count,
                    cmd, cmds, age, since_start, since_sample, fired, delivered_id,
                    undelivered, host_connected, packets, bufferIndex, buffer,
                    sampleCounter, at_read >>

\* ECGServerCallbacks::onDisconnect: simple_mode = false
DM_OnDisconnectSimple ==
    /\ variant = "dual"
    /\ ble_pc = "disc_simple"
    /\ simple_mode' = FALSE
    /\ ble_pc' = "disc_stream"
    /\ UNCHANGED << variant, deviceConnected, streaming, packet_id, sample_index,
                    packet_buffer, total_sample_count, stream_mode, simple_counter,
                    stream_sample_counter, last_simple_time, last_stream_time, clock,
                    ticks, loop_pc, loop_now, loop_sample, loop_reg, loop_id,
                    loop_ts, loop_samples, overlapped, epoch, reads, start_reads,
                    reset_reads, session_tx, last_stop, after_stop, armed, prev_id,
                    switch_phase, tx, tx_kind, iter_text, iter_packet, timer,
                    last_sample_time, is_recording, sample_count, cmd, cmds, age,
                    since_start, since_sample, fired, session_lines, delivered_id,
                    undelivered, host_connected, packets, bufferIndex, buffer,
                    sampleCounter, at_read >>

\* ECGServerCallbacks::onDisconnect: stream_mode = false, return
DM_OnDisconnectStream ==
    /\ variant = "dual"
    /\ ble_pc = "disc_stream"
    /\ stream_mode' = FALSE
    /\ ble_pc' = "idle"
    /\ Returns
    /\ UNCHANGED << variant, deviceConnected, streaming, packet_id, sample_index,
                    packet_buffer, total_sample_count, simple_mode, simple_counter,
                    stream_sample_counter, last_simple_time, last_stream_time, clock,
                    ticks, loop_pc, loop_now, loop_sample, loop_reg, loop_id,
                    loop_ts, loop_samples, epoch, reads, start_reads, reset_reads,
                    session_tx, last_stop, after_stop, armed, prev_id, switch_phase,
                    tx, tx_kind, iter_text, iter_packet, timer, last_sample_time,
                    is_recording, sample_count, cmd, cmds, age, since_start,
                    since_sample, fired, session_lines, delivered_id, undelivered,
                    host_connected, packets, bufferIndex, buffer, sampleCounter,
                    at_read >>

DM_TokenMutAnyStop(rx) ==
    IF rx \in { "START_SIMPLE", "START_STREAM" } THEN rx
    ELSE IF rx = "STOP_SIMPLE" THEN "STOP_STREAM"
    ELSE IF rx = "STOP_STREAM" THEN "STOP_SIMPLE" ELSE "ignored"

\* how CommandCallbacks::onWrite of the dual-mode image reads rxValue
DM_Token(rx) ==
    IF rx \in { "START_SIMPLE", "STOP_SIMPLE", "START_STREAM", "STOP_STREAM" } THEN rx
    ELSE "ignored"

\* CommandCallbacks::onWrite: empty or unrecognized payload
DM_OnWriteIgnored(rx) ==
    /\ variant = "dual"
    /\ deviceConnected
    /\ DM_Token(rx) = "ignored"
    /\ Dispatch("ignored")
    /\ Returns
    /\ UNCHANGED << variant, deviceConnected, streaming, packet_id, sample_index,
                    packet_buffer, total_sample_count, simple_mode, stream_mode,
                    simple_counter, stream_sample_counter, last_simple_time,
                    last_stream_time, clock, ticks, loop_pc, loop_now, loop_sample,
                    loop_reg, loop_id, loop_ts, loop_samples, ble_pc, epoch, reads,
                    start_reads, reset_reads, session_tx, after_stop, armed,
                    switch_phase, tx, tx_kind, iter_text, iter_packet, timer,
                    last_sample_time, is_recording, sample_count, cmd, cmds, age,
                    since_start, since_sample, fired, delivered_id, undelivered,
                    host_connected, packets, bufferIndex, buffer, sampleCounter,
                    at_read >>

\* CommandCallbacks::onWrite: "START_SIMPLE", simple_mode = true
DM_OnWriteStartSimple(rx) ==
    /\ variant = "dual"
    /\ deviceConnected
    /\ DM_Token(rx) = "START_SIMPLE"
    /\ Dispatch("START_SIMPLE")
    /\ simple_mode' = TRUE
    /\ armed' = TRUE
    /\ switch_phase' = "simple"
    /\ ble_pc' = "ss_stream"
    /\ UNCHANGED << variant, deviceConnected, streaming, packet_id, sample_index,
                    packet_buffer, total_sample_count, stream_mode, simple_counter,
                    stream_sample_counter, last_simple_time, last_stream_time, clock,
                    ticks, loop_pc, loop_now, loop_sample, loop_reg, loop_id,
                    loop_ts, loop_samples, overlapped, epoch, reads, start_reads,
                    reset_reads, session_tx, after_stop, tx, tx_kind, iter_text,
                    iter_packet, timer, last_sample_time, is_recording, sample_count,
                    cmd, cmds, age, since_start, since_sample, fired, delivered_id,
                    undelivered, host_connected, packets, bufferIndex, buffer,
                    sampleCounter, at_read >>

\* START_SIMPLE: stream_mode = false
DM_StartSimpleStream ==
    /\ variant = "dual"
    /\ ble_pc = "ss_stream"
    /\ stream_mode' = FALSE
    /\ ble_pc' = "ss_counter"
    /\ UNCHANGED << variant, deviceConnected, streaming, packet_id, sample_index,
                    packet_buffer, total_sample_count, simple_mode, simple_counter,
                    stream_sample_counter, last_simple_time, last_stream_time, clock,
                    ticks, loop_pc, loop_now, loop_sample, loop_reg, loop_id,
                    loop_ts, loop_samples, overlapped, epoch, reads, start_reads,
                    reset_reads, session_tx, last_stop, after_stop, armed, prev_id,
                    switch_phase, tx, tx_kind, iter_text, iter_packet, timer,
                    last_sample_time, is_recording, sample_count, cmd, cmds, age,
                    since_start, since_sample, fired, session_lines, delivered_id,
                    undelivered, host_connected, packets, bufferIndex, buffer,
                    sampleCounter, at_read >>

\* START_SIMPLE: simple_counter = 1
DM_StartSimpleCounter ==
    /\ variant = "dual"
    /\ ble_pc = "ss_counter"
    /\ simple_counter' = 1
    /\ ble_pc' = "ss_time"
    /\ UNCHANGED << variant, deviceConnected, streaming, packet_id, sample_index,
                    packet_buffer, total_sample_count, simple_mode, stream_mode,
                    stream_sample_counter, last_simple_time, last_stream_time, clock,
                    ticks, loop_pc, loop_now, loop_sample, loop_reg, loop_id,
                    loop_ts, loop_samples, overlapped, epoch, reads, start_reads,
                    reset_reads, session_tx, last_stop, after_stop, armed, prev_id,
                    switch_phase, tx, tx_kind, iter_text, iter_packet, timer,
                    last_sample_time, is_recording, sample_count, cmd, cmds, age,
                    since_start, since_sample, fired, session_lines, delivered_id,
                    undelivered, host_connected, packets, bufferIndex, buffer,
                    sampleCounter, at_read >>

\* START_SIMPLE: last_simple_time = millis(), return
DM_StartSimpleTime ==
    /\ variant = "dual"
    /\ ble_pc = "ss_time"
    /\ last_simple_time' = clock
    /\ prev_id' = -1
    /\ since_start' = 0
    /\ since_sample' = -1
    /\ ble_pc' = "idle"
    /\ Returns
    /\ UNCHANGED << variant, deviceConnected, streaming, packet_id, sample_index,
                    packet_buffer, total_sample_count, simple_mode, stream_mode,
                    simple_counter, stream_sample_counter, last_stream_time, clock,
                    ticks, loop_pc, loop_now, loop_sample, loop_reg, loop_id,
                    loop_ts, loop_samples, epoch, reads, start_reads, reset_reads,
                    session_tx, last_stop, after_stop, armed, switch_phase, tx,
                    tx_kind, iter_text, iter_packet, timer, last_sample_time,
                    is_recording, sample_count, cmd, cmds, age, fired, session_lines,
                    delivered_id, undelivered, host_connected, packets, bufferIndex,
                    buffer, sampleCounter, at_read >>

\* CommandCallbacks::onWrite: "STOP_SIMPLE"
DM_OnWriteStopSimple(rx) ==
    /\ variant = "dual"
    /\ deviceConnected
    /\ DM_Token(rx) = "STOP_SIMPLE"
    /\ Dispatch("STOP_SIMPLE")
    /\ simple_mode' = FALSE
    /\ switch_phase' = "idle"
    /\ Returns
    /\ UNCHANGED << variant, deviceConnected, streaming, packet_id, sample_index,
                    packet_buffer, total_sample_count, stream_mode, simple_counter,
                    stream_sample_counter, last_simple_time, last_stream_time, clock,
                    ticks, loop_pc, loop_now, loop_sample, loop_reg, loop_id,
                    loop_ts, loop_samples, ble_pc, epoch, reads, start_reads,
                    reset_reads, session_tx, after_stop, armed, tx, tx_kind,
                    iter_text, iter_packet, timer, last_sample_time, is_recording,
                    sample_count, cmd, cmds, age, since_start, since_sample, fired,
                    delivered_id, undelivered, host_connected, packets, bufferIndex,
                    buffer, sampleCounter, at_read >>

\* CommandCallbacks::onWrite: "START_STREAM", stream_mode = true
DM_OnWriteStartStream(rx) ==
    /\ variant = "dual"
    /\ deviceConnected
    /\ DM_Token(rx) = "START_STREAM"
    /\ Dispatch("START_STREAM")
    /\ stream_mode' = TRUE
    /\ armed' = TRUE
    /\ switch_phase' = IF switch_phase = "simple" THEN "switching" ELSE "idle"
    /\ ble_pc' = "st_simple"
    /\ UNCHANGED << variant, deviceConnected, streaming, packet_id, sample_index,
                    packet_buffer, total_sample_count, simple_mode, simple_counter,
                    stream_sample_counter, last_simple_time, last_stream_time, clock,
                    ticks, loop_pc, loop_now, loop_sample, loop_reg, loop_id,
                    loop_ts, loop_samples, overlapped, epoch, reads, start_reads,
                    reset_reads, session_tx, after_stop, tx, tx_kind, iter_text,
                    iter_packet, timer, last_sample_time, is_recording, sample_count,
                    cmd, cmds, age, since_start, since_sample, fired, delivered_id,
                    undelivered, host_connected, packets, bufferIndex, buffer,
                    sampleCounter, at_read >>

\* START_STREAM: simple_mode = false
DM_StartStreamSimple ==
    /\ variant = "dual"
    /\ ble_pc = "st_simple"
    /\ simple_mode' = FALSE
    /\ ble_pc' = "st_id"
    /\ UNCHANGED << variant, deviceConnected, streaming, packet_id, sample_index,
                    packet_buffer, total_sample_count, stream_mode, simple_counter,
                    stream_sample_counter, last_simple_time, last_stream_time, clock,
                    ticks, loop_pc, loop_now, loop_sample, loop_reg, loop_id,
                    loop_ts, loop_samples, overlapped, epoch, reads, start_reads,
                    reset_reads, session_tx, last_stop, after_stop, armed, prev_id,
                    switch_phase, tx, tx_kind, iter_text, iter_packet, timer,
                    last_sample_time, is_recording, sample_count, cmd, cmds, age,
                    since_start, since_sample, fired, session_lines, delivered_id,
                    undelivered, host_connected, packets, bufferIndex, buffer,
                    sampleCounter, at_read >>

\* START_STREAM: packet_id = 1
DM_StartStreamId ==
    /\ variant = "dual"
    /\ ble_pc = "st_id"
    /\ packet_id' = 1
    /\ ble_pc' = "st_counter"
    /\ UNCHANGED << variant, deviceConnected, streaming, sample_index, packet_buffer,
                    total_sample_count, simple_mode, stream_mode, simple_counter,
                    stream_sample_counter, last_simple_time, last_stream_time, clock,
                    ticks, loop_pc, loop_now, loop_sample, loop_reg, loop_id,
                    loop_ts, loop_samples, overlapped, epoch, reads, start_reads,
                    reset_reads, session_tx, last_stop, after_stop, armed, prev_id,
                    switch_phase, tx, tx_kind, iter_text, iter_packet, timer,
                    last_sample_time, is_recording, sample_count, cmd, cmds, age,
                    since_start, since_sample, fired, session_lines, delivered_id,
                    undelivered, host_connected, packets, bufferIndex, buffer,
                    sampleCounter, at_read >>

\* START_STREAM: stream_sample_counter = 1
DM_StartStreamCounter ==
    /\ variant = "dual"
    /\ ble_pc = "st_counter"
    /\ stream_sample_counter' = 1
    /\ ble_pc' = "st_time"
    /\ UNCHANGED << variant, deviceConnected, streaming, packet_id, sample_index,
                    packet_buffer, total_sample_count, simple_mode, stream_mode,
                    simple_counter, last_simple_time, last_stream_time, clock, ticks,
                    loop_pc, loop_now, loop_sample, loop_reg, loop_id, loop_ts,
                    loop_samples, overlapped, epoch, reads, start_reads, reset_reads,
                    session_tx, last_stop, after_stop, armed, prev_id, switch_phase,
                    tx, tx_kind, iter_text, iter_packet, timer, last_sample_time,
                    is_recording, sample_count, cmd, cmds, age, since_start,
                    since_sample, fired, session_lines, delivered_id, undelivered,
                    host_connected, packets, bufferIndex, buffer, sampleCounter,
                    at_read >>

\* START_STREAM: last_stream_time = millis(), return
DM_StartStreamTime ==
    /\ variant = "dual"
    /\ ble_pc = "st_time"
    /\ last_stream_time' = clock
    /\ prev_id' = -1
    /\ since_start' = 0
    /\ since_sample' = -1
    /\ switch_phase' = IF switch_phase = "switching" THEN "switched" ELSE switch_phase
    /\ ble_pc' = "idle"
    /\ Returns
    /\ UNCHANGED << variant, deviceConnected, streaming, packet_id, sample_index,
                    packet_buffer, total_sample_count, simple_mode, stream_mode,
                    simple_counter, stream_sample_counter, last_simple_time, clock,
                    ticks, loop_pc, loop_now, loop_sample, loop_reg, loop_id,
                    loop_ts, loop_samples, epoch, reads, start_reads, reset_reads,
                    session_tx, last_stop, after_stop, armed, tx, tx_kind, iter_text,
                    iter_packet, timer, last_sample_time, is_recording, sample_count,
                    cmd, cmds, age, fired, session_lines, delivered_id, undelivered,
                    host_connected, packets, bufferIndex, buffer, sampleCounter,
                    at_read >>

\* CommandCallbacks::onWrite: "STOP_STREAM"
DM_OnWriteStopStream(rx) ==
    /\ variant = "dual"
    /\ deviceConnected
    /\ DM_Token(rx) = "STOP_STREAM"
    /\ Dispatch("STOP_STREAM")
    /\ stream_mode' = FALSE
    /\ switch_phase' = "idle"
    /\ Returns
    /\ UNCHANGED << variant, deviceConnected, streaming, packet_id, sample_index,
                    packet_buffer, total_sample_count, simple_mode, simple_counter,
                    stream_sample_counter, last_simple_time, last_stream_time, clock,
                    ticks, loop_pc, loop_now, loop_sample, loop_reg, loop_id,
                    loop_ts, loop_samples, ble_pc, epoch, reads, start_reads,
                    reset_reads, session_tx, after_stop, armed, tx, tx_kind,
                    iter_text, iter_packet, timer, last_sample_time, is_recording,
                    sample_count, cmd, cmds, age, since_start, since_sample, fired,
                    delivered_id, undelivered, host_connected, packets, bufferIndex,
                    buffer, sampleCounter, at_read >>

DM_Ble ==
    \/ DM_OnConnect
    \/ DM_OnDisconnect
    \/ DM_OnDisconnectSimple
    \/ DM_OnDisconnectStream
    \/ \E rx \in Commands : DM_OnWriteIgnored(rx)
    \/ \E rx \in Commands : DM_OnWriteStartSimple(rx)
    \/ DM_StartSimpleStream
    \/ DM_StartSimpleCounter
    \/ DM_StartSimpleTime
    \/ \E rx \in Commands : DM_OnWriteStopSimple(rx)
    \/ \E rx \in Commands : DM_OnWriteStartStream(rx)
    \/ DM_StartStreamSimple
    \/ DM_StartStreamId
    \/ DM_StartStreamCounter
    \/ DM_StartStreamTime
    \/ \E rx \in Commands : DM_OnWriteStopStream(rx)

\* ------------------------------------------------------------------------
\* Dual-mode BLE firmware: loop task
\* ------------------------------------------------------------------------
\* loop(): if (deviceConnected), now = millis()
DM_LoopConnected ==
    /\ variant = "dual"
    /\ loop_pc = "top"
    /\ ~InCallback
    /\ IF deviceConnected
       THEN /\ loop_pc' = "simple"
            /\ loop_now' = clock
            /\ UNCHANGED << overlapped, loop_sample, loop_reg, loop_id, loop_ts,
                            loop_samples, tx, tx_kind, iter_text, iter_packet >>
       ELSE IterationEnds
    /\ UNCHANGED << variant, deviceConnected, streaming, packet_id, sample_index,
                    packet_buffer, total_sample_count, simple_mode, stream_mode,
                    simple_counter, stream_sample_counter, last_simple_time,
                    last_stream_time, clock, ticks, ble_pc, epoch, reads,
                    start_reads, reset_reads, session_tx, last_stop, after_stop,
                    armed, prev_id, switch_phase, timer, last_sample_time,
                    is_recording, sample_count, cmd, cmds, age, since_start,
                    since_sample, fired, session_lines, delivered_id, undelivered,
                    host_connected, packets, bufferIndex, buffer, sampleCounter,
                    at_read >>

\* loop(): if (simple_mode)
DM_LoopSimple ==
    /\ variant = "dual"
    /\ loop_pc = "simple"
    /\ IF simple_mode THEN Goes("simple_time") ELSE Goes("stream")
    /\ UNCHANGED << variant, deviceConnected, streaming, packet_id, sample_index,
                    packet_buffer, total_sample_count, simple_mode, stream_mode,
                    simple_counter, stream_sample_counter, last_simple_time,
                    last_stream_time, clock, ticks, ble_pc, epoch, reads,
                    start_reads, reset_reads, session_tx, last_stop, after_stop,
                    armed, prev_id, switch_phase, timer, last_sample_time,
                    is_recording, sample_count, cmd, cmds, age, since_start,
                    since_sample, fired, session_lines, delivered_id, undelivered,
                    host_connected, packets, bufferIndex, buffer, sampleCounter,
                    at_read >>

\* loop(): if (now - last_simple_time >= 2000)
DM_LoopSimpleTime ==
    /\ variant = "dual"
    /\ loop_pc = "simple_time"
    /\ IF Elapsed(loop_now, last_simple_time, SIMPLE_INTERVAL_MS)
       THEN Goes("simple_store") ELSE Goes("stream")
    /\ UNCHANGED << variant, deviceConnected, streaming, packet_id, sample_index,
                    packet_buffer, total_sample_count, simple_mode, stream_mode,
                    simple_counter, stream_sample_counter, last_simple_time,
                    last_stream_time, clock, ticks, ble_pc, epoch, reads,
                    start_reads, reset_reads, session_tx, last_stop, after_stop,
                    armed, prev_id, switch_phase, timer, last_sample_time,
                    is_recording, sample_count, cmd, cmds, age, since_start,
                    since_sample, fired, session_lines, delivered_id, undelivered,
                    host_connected, packets, bufferIndex, buffer, sampleCounter,
                    at_read >>

\* loop(): last_simple_time = now
DM_LoopSimpleStore ==
    /\ variant = "dual"
    /\ loop_pc = "simple_store"
    /\ last_simple_time' = loop_now
    /\ loop_pc' = "simple_msg"
    /\ UNCHANGED << variant, deviceConnected, streaming, packet_id, sample_index,
                    packet_buffer, total_sample_count, simple_mode, stream_mode,
                    simple_counter, stream_sample_counter, last_stream_time, clock,
                    ticks, loop_now, loop_sample, loop_reg, loop_id, loop_ts,
                    loop_samples, ble_pc, overlapped, epoch, reads, start_reads,
                    reset_reads, session_tx, last_stop, after_stop, armed, prev_id,
                    switch_phase, tx, tx_kind, iter_text, iter_packet, timer,
                    last_sample_time, is_recording, sample_count, cmd, cmds, age,
                    since_start, since_sample, fired, session_lines, delivered_id,
                    undelivered, host_connected, packets, bufferIndex, buffer,
                    sampleCounter, at_read >>

\* loop(): len = buildSimpleMessage(msgBuf, 64, simple_counter); if (len > 0)
\* setValue() and notify()
DM_LoopSimpleMsg ==
    /\ variant = "dual"
    /\ loop_pc = "simple_msg"
    /\ IF Len(buildSimpleMessage(MSG_BUF_SIZE, simple_counter)) > 0
       THEN /\ NotifyText(buildSimpleMessage(MSG_BUF_SIZE, simple_counter))
            /\ loop_pc' = "simple_load"
            /\ UNCHANGED << overlapped, loop_now, loop_sample, loop_reg, loop_id,
                            loop_ts, loop_samples, iter_packet >>
       ELSE Goes("stream")
    /\ UNCHANGED << variant, deviceConnected, streaming, packet_id, sample_index,
                    packet_buffer, total_sample_count, simple_mode, stream_mode,
                    simple_counter, stream_sample_counter, last_simple_time,
                    last_stream_time, clock, ticks, ble_pc, epoch, reads,
                    start_reads, reset_reads, session_tx, last_stop, after_stop,
                    armed, prev_id, switch_phase, timer, last_sample_time,
                    is_recording, sample_count, cmd, cmds, age, since_start, fired,
                    delivered_id, undelivered, host_connected, packets, bufferIndex,
                    buffer, sampleCounter, at_read >>

\* loop(): the load of simple_counter++
DM_LoopSimpleLoad ==
    /\ variant = "dual"
    /\ loop_pc = "simple_load"
    /\ loop_reg' = simple_counter
    /\ loop_pc' = "simple_inc"
    /\ UNCHANGED << variant, deviceConnected, streaming, packet_id, sample_index,
                    packet_buffer, total_sample_count, simple_mode, stream_mode,
                    simple_counter, stream_sample_counter, last_simple_time,
                    last_stream_time, clock, ticks, loop_now, loop_sample, loop_id,
                    loop_ts, loop_samples, ble_pc, overlapped, epoch, reads,
                    start_reads, reset_reads, session_tx, last_stop, after_stop,
                    armed, prev_id, switch_phase, tx, tx_kind, iter_text,
                    iter_packet, timer, last_sample_time, is_recording, sample_count,
                    cmd, cmds, age, since_start, since_sample, fired, session_lines,
                    delivered_id, undelivered, host_connected, packets, bufferIndex,
                    buffer, sampleCounter, at_read >>

\* loop(): the store of simple_counter++
DM_LoopSimpleInc ==
    /\ variant = "dual"
    /\ loop_pc = "simple_inc"
    /\ simple_counter' = loop_reg + 1
    /\ loop_pc' = "stream"
    /\ UNCHANGED << variant, deviceConnected, streaming, packet_id, sample_index,
                    packet_buffer, total_sample_count, simple_mode, stream_mode,
                    stream_sample_counter, last_simple_time, last_stream_time, clock,
                    ticks, loop_now, loop_sample, loop_reg, loop_id, loop_ts,
                    loop_samples, ble_pc, overlapped, epoch, reads, start_reads,
                    reset_reads, session_tx, last_stop, after_stop, armed, prev_id,
                    switch_phase, tx, tx_kind, iter_text, iter_packet, timer,
                    last_sample_time, is_recording, sample_count, cmd, cmds, age,
                    since_start, since_sample, fired, session_lines, delivered_id,
                    undelivered, host_connected, packets, bufferIndex, buffer,
                    sampleCounter, at_read >>

\* loop(): if (stream_mode); when it is not, delay(1)
DM_LoopStream ==
    /\ variant = "dual"
    /\ loop_pc = "stream"
    /\ IF stream_mode THEN Goes("stream_time") ELSE Goes("delay")
    /\ UNCHANGED << variant, deviceConnected, streaming, packet_id, sample_index,
                    packet_buffer, total_sample_count, simple_mode, stream_mode,
                    simple_counter, stream_sample_counter, last_simple_time,
                    last_stream_time, clock, ticks, ble_pc, epoch, reads,
                    start_reads, reset_reads, session_tx, last_stop, after_stop,
                    armed, prev_id, switch_phase, timer, last_sample_time,
                    is_recording, sample_count, cmd, cmds, age, since_start,
                    since_sample, fired, session_lines, delivered_id, undelivered,
                    host_connected, packets, bufferIndex, buffer, sampleCounter,
                    at_read >>

\* loop(): if (now - last_stream_time >= 40)
DM_LoopStreamTime ==
    /\ variant = "dual"
    /\ loop_pc = "stream_time"
    /\ IF Elapsed(loop_now, last_stream_time, STREAM_INTERVAL_MS)
       THEN Goes("stream_store") ELSE Goes("delay")
    /\ UNCHANGED << variant, deviceConnected, streaming, packet_id, sample_index,
                    packet_buffer, total_sample_count, simple_mode, stream_mode,
                    simple_counter, stream_sample_counter, last_simple_time,
                    last_stream_time, clock, ticks, ble_pc, epoch, reads,
                    start_reads, reset_reads, session_tx, last_stop, after_stop,
                    armed, prev_id, switch_phase, timer, last_sample_time,
                    is_recording, sample_count, cmd, cmds, age, since_start,
                    since_sample, fired, session_lines, delivered_id, undelivered,
                    host_connected, packets, bufferIndex, buffer, sampleCounter,
                    at_read >>

\* loop(): last_stream_time = now
DM_LoopStreamStore ==
    /\ variant = "dual"
    /\ loop_pc = "stream_store"
    /\ last_stream_time' = loop_now
    /\ loop_pc' = "id"
    /\ UNCHANGED << variant, deviceConnected, streaming, packet_id, sample_index,
                    packet_buffer, total_sample_count, simple_mode, stream_mode,
                    simple_counter, stream_sample_counter, last_simple_time, clock,
                    ticks, loop_now, loop_sample, loop_reg, loop_id, loop_ts,
                    loop_samples, ble_pc, overlapped, epoch, reads, start_reads,
                    reset_reads, session_tx, last_stop, after_stop, armed, prev_id,
                    switch_phase, tx, tx_kind, iter_text, iter_packet, timer,
                    last_sample_time, is_recording, sample_count, cmd, cmds, age,
                    since_start, since_sample, fired, session_lines, delivered_id,
                    undelivered, host_connected, packets, bufferIndex, buffer,
                    sampleCounter, at_read >>

\* buildBinaryPacket(): packet_buf[2] = packet_id, the load of packet_id
DM_LoopId ==
    /\ variant = "dual"
    /\ loop_pc = "id"
    /\ loop_id' = packet_id
    /\ loop_pc' = "id_inc"
    /\ UNCHANGED << variant, deviceConnected, streaming, packet_id, sample_index,
                    packet_buffer, total_sample_count, simple_mode, stream_mode,
                    simple_counter, stream_sample_counter, last_simple_time,
                    last_stream_time, clock, ticks, loop_now, loop_sample, loop_reg,
                    loop_ts, loop_samples, ble_pc, overlapped, epoch, reads,
                    start_reads, reset_reads, session_tx, last_stop, after_stop,
                    armed, prev_id, switch_phase, tx, tx_kind, iter_text,
                    iter_packet, timer, last_sample_time, is_recording, sample_count,
                    cmd, cmds, age, since_start, since_sample, fired, session_lines,
                    delivered_id, undelivered, host_connected, packets, bufferIndex,
                    buffer, sampleCounter, at_read >>

\* buildBinaryPacket(): the store of packet_id++, on the value loaded for packet_buf[2]
\* or on a fresh load, as the compiler chooses
DM_LoopIdInc ==
    /\ variant = "dual"
    /\ loop_pc = "id_inc"
    /\ \E id \in { loop_id, packet_id } : packet_id' = U8Inc(id)
    /\ loop_pc' = "id_fix"
    /\ UNCHANGED << variant, deviceConnected, streaming, sample_index, packet_buffer,
                    total_sample_count, simple_mode, stream_mode, simple_counter,
                    stream_sample_counter, last_simple_time, last_stream_time, clock,
                    ticks, loop_now, loop_sample, loop_reg, loop_id, loop_ts,
                    loop_samples, ble_pc, overlapped, epoch, reads, start_reads,
                    reset_reads, session_tx, last_stop, after_stop, armed, prev_id,
                    switch_phase, tx, tx_kind, iter_text, iter_packet, timer,
                    last_sample_time, is_recording, sample_count, cmd, cmds, age,
                    since_start, since_sample, fired, session_lines, delivered_id,
                    undelivered, host_connected, packets, bufferIndex, buffer,
                    sampleCounter, at_read >>

\* buildBinaryPacket(): if (packet_id == 0) packet_id = 1; timestamp = millis()
DM_LoopIdFix ==
    /\ variant = "dual"
    /\ loop_pc = "id_fix"
    /\ packet_id' = SkipZero(packet_id)
    /\ loop_ts' = clock
    /\ loop_pc' = "samples"
    /\ UNCHANGED << variant, deviceConnected, streaming, sample_index, packet_buffer,
                    total_sample_count, simple_mode, stream_mode, simple_counter,
                    stream_sample_counter, last_simple_time, last_stream_time, clock,
                    ticks, loop_now, loop_sample, loop_reg, loop_id, loop_samples,
                    ble_pc, overlapped, epoch, reads, start_reads, reset_reads,
                    session_tx, last_stop, after_stop, armed, prev_id, switch_phase,
                    tx, tx_kind, iter_text, iter_packet, timer, last_sample_time,
                    is_recording, sample_count, cmd, cmds, age, since_start,
                    since_sample, fired, session_lines, delivered_id, undelivered,
                    host_connected, packets, bufferIndex, buffer, sampleCounter,
                    at_read >>

\* buildBinaryPacket(): the first k rounds of the sample loop, and for k < 10 the
\* load of stream_sample_counter++ in round k + 1
DM_LoopSamples ==
    /\ variant = "dual"
    /\ loop_pc = "samples"
    /\ \E k \in 0..PACKET_SAMPLES :
          /\ loop_samples' = CounterSamples(stream_sample_counter, 1, k)
          /\ stream_sample_counter' = stream_sample_counter + k
          /\ loop_reg' = IF k < PACKET_SAMPLES THEN stream_sample_counter + k ELSE 0
          /\ loop_pc' = IF k < PACKET_SAMPLES THEN "samples_store" ELSE "notify"
    /\ UNCHANGED << variant, deviceConnected, streaming, packet_id, sample_index,
                    packet_buffer, total_sample_count, simple_mode, stream_mode,
                    simple_counter, last_simple_time, last_stream_time, clock, ticks,
                    loop_now, loop_sample, loop_id, loop_ts, ble_pc, overlapped,
                    epoch, reads, start_reads, reset_reads, session_tx, last_stop,
                    after_stop, armed, prev_id, switch_phase, tx, tx_kind, iter_text,
                    iter_packet, timer, last_sample_time, is_recording, sample_count,
                    cmd, cmds, age, since_start, since_sample, fired, session_lines,
                    delivered_id, undelivered, host_connected, packets, bufferIndex,
                    buffer, sampleCounter, at_read >>

\* buildBinaryPacket(): the store of stream_sample_counter++ in round k + 1 and the
\* rounds after it
DM_LoopSamplesStore ==
    /\ variant = "dual"
    /\ loop_pc = "samples_store"
    /\ loop_samples' = loop_samples
                       \o CounterSamples(loop_reg, Len(loop_samples) + 1, PACKET_SAMPLES)
    /\ stream_sample_counter' = loop_reg + (PACKET_SAMPLES - Len(loop_samples))
    /\ loop_reg' = 0
    /\ loop_pc' = "notify"
    /\ UNCHANGED << variant, deviceConnected, streaming, packet_id, sample_index,
                    packet_buffer, total_sample_count, simple_mode, stream_mode,
                    simple_counter, last_simple_time, last_stream_time, clock, ticks,
                    loop_now, loop_sample, loop_id, loop_ts, ble_pc, overlapped,
                    epoch, reads, start_reads, reset_reads, session_tx, last_stop,
                    after_stop, armed, prev_id, switch_phase, tx, tx_kind, iter_text,
                    iter_packet, timer, last_sample_time, is_recording, sample_count,
                    cmd, cmds, age, since_start, since_sample, fired, session_lines,
                    delivered_id, undelivered, host_connected, packets, bufferIndex,
                    buffer, sampleCounter, at_read >>

\* buildBinaryPacket(): the end marker; loop(): setValue() and notify()
DM_LoopNotify ==
    /\ variant = "dual"
    /\ loop_pc = "notify"
    /\ NotifyPacket(Frame(loop_id, loop_ts, loop_samples))
    /\ loop_pc' = "delay"
    /\ UNCHANGED << variant, deviceConnected, streaming, packet_id, sample_index,
                    packet_buffer, total_sample_count, simple_mode, stream_mode,
                    simple_counter, stream_sample_counter, last_simple_time,
                    last_stream_time, clock, ticks, loop_now, loop_sample, loop_reg,
                    loop_id, loop_ts, loop_samples, ble_pc, overlapped, epoch, reads,
                    start_reads, reset_reads, last_stop, after_stop, armed,
                    switch_phase, iter_text, timer, last_sample_time, is_recording,
                    sample_count, cmd, cmds, age, since_start, fired, session_lines,
                    delivered_id, undelivered, host_connected, packets, bufferIndex,
                    buffer, sampleCounter, at_read >>

\* loop(): delay(1), the iteration ends
DM_LoopDelay ==
    /\ variant = "dual"
    /\ loop_pc = "delay"
    /\ IterationEnds
    /\ UNCHANGED << variant, deviceConnected, streaming, packet_id, sample_index,
                    packet_buffer, total_sample_count, simple_mode, stream_mode,
                    simple_counter, stream_sample_counter, last_simple_time,
                    last_stream_time, clock, ticks, ble_pc, epoch, reads,
                    start_reads, reset_reads, session_tx, last_stop, after_stop,
                    armed, prev_id, switch_phase, timer, last_sample_time,
                    is_recording, sample_count, cmd, cmds, age, since_start,
                    since_sample, fired, session_lines, delivered_id, undelivered,
                    host_connected, packets, bufferIndex, buffer, sampleCounter,
                    at_read >>

DM_Loop ==
    \/ DM_LoopConnected
    \/ DM_LoopSimple
    \/ DM_LoopSimpleTime
    \/ DM_LoopSimpleStore
    \/ DM_LoopSimpleMsg
    \/ DM_LoopSimpleLoad
    \/ DM_LoopSimpleInc
    \/ DM_LoopStream
    \/ DM_LoopStreamTime
    \/ DM_LoopStreamStore
    \/ DM_LoopId
    \/ DM_LoopIdInc
    \/ DM_LoopIdFix
    \/ DM_LoopSamples
    \/ DM_LoopSamplesStore
    \/ DM_LoopNotify
    \/ DM_LoopDelay

\* millis() advances by one message interval
DM_TickMessage ==
    /\ variant = "dual"
    /\ ticks < MaxTicks
    /\ clock' = clock + SIMPLE_INTERVAL_MS
    /\ ticks' = ticks + 1
    /\ since_start' = Later(since_start, SIMPLE_INTERVAL_MS)
    /\ since_sample' = IF since_sample = -1 THEN -1 ELSE Later(since_sample, SIMPLE_INTERVAL_MS)
    /\ UNCHANGED << variant, deviceConnected, streaming, packet_id, sample_index,
                    packet_buffer, total_sample_count, simple_mode, stream_mode,
                    simple_counter, stream_sample_counter, last_simple_time,
                    last_stream_time, loop_pc, loop_now, loop_sample, loop_reg,
                    loop_id, loop_ts, loop_samples, ble_pc, overlapped, epoch, reads,
                    start_reads, reset_reads, session_tx, last_stop, after_stop,
                    armed, prev_id, switch_phase, tx, tx_kind, iter_text,
                    iter_packet, timer, last_sample_time, is_recording, sample_count,
                    cmd, cmds, age, fired, session_lines, delivered_id, undelivered,
                    host_connected, packets, bufferIndex, buffer, sampleCounter,
                    at_read >>

\* the dual-mode image driven with START_SIMPLE and STOP_SIMPLE only, the clock
\* seen at every message interval
NextSimple ==
    \/ DM_TickMessage
    \/ DM_OnConnect
    \/ DM_OnDisconnect
    \/ DM_OnDisconnectSimple
    \/ DM_OnDisconnectStream
    \/ \E rx \in Commands : DM_OnWriteStartSimple(rx)
    \/ DM_StartSimpleStream
    \/ DM_StartSimpleCounter
    \/ DM_StartSimpleTime
    \/ \E rx \in Commands : DM_OnWriteStopSimple(rx)
    \/ DM_LoopConnected
    \/ DM_LoopSimple
    \/ DM_LoopSimpleTime
    \/ DM_LoopSimpleStore
    \/ DM_LoopSimpleMsg
    \/ DM_LoopSimpleLoad
    \/ DM_LoopSimpleInc
    \/ DM_LoopStream
    \/ DM_LoopDelay

SpecSimple == InitDual /\ [][NextSimple]_vars

Next == SM_Ble \/ SM_Loop \/ DM_Tick \/ DM_Ble \/ DM_Loop

Spec == Init /\ [][Next]_vars

\* ------------------------------------------------------------------------
\* Handler-level model: every callback and every iteration of loop() runs to
\* completion before the next begins.  The time tests of loop() read the clock,
\* an input: an action below is an iteration in which the test passes.
\* Conversions are numbered from the last START.
\* ------------------------------------------------------------------------
\* ECGServerCallbacks::onConnect of either image
Seq_OnConnect ==
    /\ ~deviceConnected
    /\ deviceConnected' = TRUE
    /\ UNCHANGED << variant, streaming, packet_id, sample_index, packet_buffer,
                    total_sample_count, simple_mode, stream_mode, simple_counter,
                    stream_sample_counter, last_simple_time, last_stream_time, clock,
                    ticks, loop_pc, loop_now, loop_sample, loop_reg, loop_id,
                    loop_ts, loop_samples, ble_pc, overlapped, epoch, reads,
                    start_reads, reset_reads, session_tx, last_stop, after_stop,
                    armed, prev_id, switch_phase, tx, tx_kind, iter_text,
                    iter_packet, timer, last_sample_time, is_recording, sample_count,
                    cmd, cmds, age, since_start, since_sample, fired, session_lines,
                    delivered_id, undelivered, host_connected, packets, bufferIndex,
                    buffer, sampleCounter, at_read >>

\* ECGServerCallbacks::onDisconnect of either image
Seq_OnDisconnect ==
    /\ deviceConnected
    /\ deviceConnected' = FALSE
    /\ streaming' = FALSE
    /\ simple_mode' = FALSE
    /\ stream_mode' = FALSE
    /\ armed' = FALSE
    /\ prev_id' = -1
    /\ delivered_id' = -1
    /\ undelivered' = 0
    /\ UNCHANGED << variant, packet_id, sample_index, packet_buffer,
                    total_sample_count, simple_counter, stream_sample_counter,
                    last_simple_time, last_stream_time, clock, ticks, loop_pc,
                    loop_now, loop_sample, loop_reg, loop_id, loop_ts, loop_samples,
                    ble_pc, overlapped, epoch, reads, start_reads, reset_reads,
                    session_tx, last_stop, after_stop, switch_phase, tx, tx_kind,
                    iter_text, iter_packet, timer, last_sample_time, is_recording,
                    sample_count, cmd, cmds, age, since_start, since_sample, fired,
                    session_lines, host_connected, packets, bufferIndex, buffer,
                    sampleCounter, at_read >>

\* CommandCallbacks::onWrite of the single-mode image, startStreaming() included
Seq_OnWriteSingle(rx) ==
    /\ variant = "single"
    /\ deviceConnected
    /\ packet_id' = IF SM_Token(rx) = "START" THEN 1 ELSE packet_id
    /\ sample_index' = IF SM_Token(rx) = "START" THEN 0 ELSE sample_index
    /\ total_sample_count' = IF SM_Token(rx) = "START" THEN 0 ELSE total_sample_count
    /\ streaming' = IF SM_Token(rx) = "START" THEN TRUE
                    ELSE IF SM_Token(rx) = "STOP" THEN FALSE ELSE streaming
    /\ armed' = (armed \/ SM_Token(rx) = "START")
    /\ prev_id' = IF SM_Token(rx) = "ignored" THEN prev_id ELSE -1
    /\ delivered_id' = IF SM_Token(rx) = "ignored" THEN delivered_id ELSE -1
    /\ undelivered' = IF SM_Token(rx) = "ignored" THEN undelivered ELSE 0
    /\ UNCHANGED << variant, deviceConnected, packet_buffer, simple_mode,
                    stream_mode, simple_counter, stream_sample_counter,
                    last_simple_time, last_stream_time, clock, ticks, loop_pc,
                    loop_now, loop_sample, loop_reg, loop_id, loop_ts, loop_samples,
                    ble_pc, overlapped, epoch, reads, start_reads, reset_reads,
                    session_tx, last_stop, after_stop, switch_phase, tx, tx_kind,
                    iter_text, iter_packet, timer, last_sample_time, is_recording,
                    sample_count, cmd, cmds, age, since_start, since_sample, fired,
                    session_lines, host_connected, packets, bufferIndex, buffer,
                    sampleCounter, at_read >>

\* CommandCallbacks::onWrite of the dual-mode image
Seq_OnWriteDual(rx) ==
    /\ variant = "dual"
    /\ deviceConnected
    /\ simple_mode' = IF DM_Token(rx) = "START_SIMPLE" THEN TRUE
                      ELSE IF DM_Token(rx) \in { "STOP_SIMPLE", "START_STREAM" } THEN FALSE
                      ELSE simple_mode
    /\ stream_mode' = IF DM_Token(rx) = "START_STREAM" THEN TRUE
                      ELSE IF DM_Token(rx) \in { "STOP_STREAM", "START_SIMPLE" } THEN FALSE
                      ELSE stream_mode
    /\ simple_counter' = IF DM_Token(rx) = "START_SIMPLE" THEN 1 ELSE simple_counter
    /\ last_simple_time' = IF DM_Token(rx) = "START_SIMPLE" THEN clock ELSE last_simple_time
    /\ packet_id' = IF DM_Token(rx) = "START_STREAM" THEN 1 ELSE packet_id
    /\ stream_sample_counter' = IF DM_Token(rx) = "START_STREAM" THEN 1
                                ELSE stream_sample_counter
    /\ last_stream_time' = IF DM_Token(rx) = "START_STREAM" THEN clock ELSE last_stream_time
    /\ armed' = (armed \/ DM_Token(rx) \in { "START_SIMPLE", "START_STREAM" })
    /\ prev_id' = IF DM_Token(rx) = "ignored" THEN prev_id ELSE -1
    /\ delivered_id' = IF DM_Token(rx) = "ignored" THEN delivered_id ELSE -1
    /\ undelivered' = IF DM_Token(rx) = "ignored" THEN undelivered ELSE 0
    /\ UNCHANGED << variant, deviceConnected, streaming, sample_index, packet_buffer,
                    total_sample_count, clock, ticks, loop_pc, loop_now, loop_sample,
                    loop_reg, loop_id, loop_ts, loop_samples, ble_pc, overlapped,
                    epoch, reads, start_reads, reset_reads, session_tx, last_stop,
                    after_stop, switch_phase, tx, tx_kind, iter_text, iter_packet,
                    timer, last_sample_time, is_recording, sample_count, cmd, cmds,
                    age, since_start, since_sample, fired, session_lines,
                    host_connected, packets, bufferIndex, buffer, sampleCounter,
                    at_read >>

Seq_LoopSingleMutRollback(ok) ==
    /\ variant = "single"
    /\ deviceConnected
    /\ streaming
    /\ total_sample_count < MaxSeqSamples
    /\ ok \/ undelivered < MaxLost
    /\ total_sample_count' = total_sample_count + 1
    /\ packet_buffer' = [packet_buffer EXCEPT
                            ![sample_index + 1] = ADCReading(total_sample_count + 1)]
    /\ IF BufferFull(U8Inc(sample_index))
       THEN /\ tx' = PacketBytes(packet_id, clock, packet_buffer')
            /\ tx_kind' = "packet"
            /\ packet_id' = IF ok THEN IncPacketId(packet_id) ELSE packet_id
            /\ prev_id' = packet_id
            /\ sample_index' = 0
            /\ delivered_id' = IF ok THEN packet_id ELSE delivered_id
            /\ undelivered' = IF ok THEN 0 ELSE undelivered + 1
       ELSE /\ tx' = << >>
            /\ tx_kind' = "none"
            /\ sample_index' = U8Inc(sample_index)
            /\ UNCHANGED << packet_id, prev_id, delivered_id, undelivered >>
    /\ UNCHANGED << variant, deviceConnected, streaming, simple_mode, stream_mode,
                    simple_counter, stream_sample_counter, last_simple_time,
                    last_stream_time, clock, ticks, loop_pc, loop_now, loop_sample,
                    loop_reg, loop_id, loop_ts, loop_samples, ble_pc, overlapped,
                    epoch, reads, start_reads, reset_reads, session_tx, last_stop,
                    after_stop, armed, switch_phase, iter_text, iter_packet, timer,
                    last_sample_time, is_recording, sample_count, cmd, cmds, age,
                    since_start, since_sample, fired, session_lines, host_connected,
                    packets, bufferIndex, buffer, sampleCounter, at_read >>

\* loop() of the single-mode image: addADCSampleToBuffer(), sendPacket() included;
\* notify() returns nothing, and ok is whether the transport delivered the packet
Seq_LoopSingle(ok) ==
    /\ variant = "single"
    /\ deviceConnected
    /\ streaming
    /\ total_sample_count < MaxSeqSamples
    /\ ok \/ undelivered < MaxLost
    /\ total_sample_count' = total_sample_count + 1
    /\ packet_buffer' = [packet_buffer EXCEPT
                            ![sample_index + 1] = ADCReading(total_sample_count + 1)]
    /\ IF BufferFull(U8Inc(sample_index))
       THEN /\ tx' = PacketBytes(packet_id, clock, packet_buffer')
            /\ tx_kind' = "packet"
            /\ packet_id' = IncPacketId(packet_id)
            /\ prev_id' = packet_id
            /\ sample_index' = 0
            /\ delivered_id' = IF ok THEN packet_id ELSE delivered_id
            /\ undelivered' = IF ok THEN 0 ELSE undelivered + 1
       ELSE /\ tx' = << >>
            /\ tx_kind' = "none"
            /\ sample_index' = U8Inc(sample_index)
            /\ UNCHANGED << packet_id, prev_id, delivered_id, undelivered >>
    /\ UNCHANGED << variant, deviceConnected, streaming, simple_mode, stream_mode,
                    simple_counter, stream_sample_counter, last_simple_time,
                    last_stream_time, clock, ticks, loop_pc, loop_now, loop_sample,
                    loop_reg, loop_id, loop_ts, loop_samples, ble_pc, overlapped,
                    epoch, reads, start_reads, reset_reads, session_tx, last_stop,
                    after_stop, armed, switch_phase, iter_text, iter_packet, timer,
                    last_sample_time, is_recording, sample_count, cmd, cmds, age,
                    since_start, since_sample, fired, session_lines, host_connected,
                    packets, bufferIndex, buffer, sampleCounter, at_read >>

\* loop() of the dual-mode image: a text line is due
Seq_LoopSimple ==
    /\ variant = "dual"
    /\ deviceConnected
    /\ simple_mode
    /\ ~stream_mode
    /\ simple_counter < MaxSeqMessages
    /\ last_simple_time' = clock
    /\ tx' = buildSimpleMessage(MSG_BUF_SIZE, simple_counter)
    /\ tx_kind' = "text"
    /\ simple_counter' = simple_counter + 1
    /\ UNCHANGED << variant, deviceConnected, streaming, packet_id, sample_index,
                    packet_buffer, total_sample_count, simple_mode, stream_mode,
                    stream_sample_counter, last_stream_time, clock, ticks, loop_pc,
                    loop_now, loop_sample, loop_reg, loop_id, loop_ts, loop_samples,
                    ble_pc, overlapped, epoch, reads, start_reads, reset_reads,
                    session_tx, last_stop, after_stop, armed, prev_id, switch_phase,
                    iter_text, iter_packet, timer, last_sample_time, is_recording,
                    sample_count, cmd, cmds, age, since_start, since_sample, fired,
                    session_lines, delivered_id, undelivered, host_connected,
                    packets, bufferIndex, buffer, sampleCounter, at_read >>

\* loop() of the dual-mode image: a binary packet is due, buildBinaryPacket() included;
\* ok is whether the transport delivered the packet
Seq_LoopStream(ok) ==
    /\ variant = "dual"
    /\ deviceConnected
    /\ stream_mode
    /\ ~simple_mode
    /\ stream_sample_counter < MaxSeqSamples
    /\ ok \/ undelivered < MaxLost
    /\ delivered_id' = IF ok THEN packet_id ELSE delivered_id
    /\ undelivered' = IF ok THEN 0 ELSE undelivered + 1
    /\ last_stream_time' = clock
    /\ tx' = Frame(packet_id, clock,
                   CounterSamples(stream_sample_counter, 1, PACKET_SAMPLES))
    /\ tx_kind' = "packet"
    /\ packet_id' = IncPacketId(packet_id)
    /\ prev_id' = packet_id
    /\ stream_sample_counter' = stream_sample_counter + PACKET_SAMPLES
    /\ UNCHANGED << variant, deviceConnected, streaming, sample_index, packet_buffer,
                    total_sample_count, simple_mode, stream_mode, simple_counter,
                    last_simple_time, clock, ticks, loop_pc, loop_now, loop_sample,
                    loop_reg, loop_id, loop_ts, loop_samples, ble_pc, overlapped,
                    epoch, reads, start_reads, reset_reads, session_tx, last_stop,
                    after_stop, armed, switch_phase, iter_text, iter_packet, timer,
                    last_sample_time, is_recording, sample_count, cmd, cmds, age,
                    since_start, since_sample, fired, session_lines, host_connected,
                    packets, bufferIndex, buffer, sampleCounter, at_read >>

NextSeq ==
    \/ Seq_OnConnect
    \/ Seq_OnDisconnect
    \/ \E rx \in Commands : Seq_OnWriteSingle(rx)
    \/ \E rx \in Commands : Seq_OnWriteDual(rx)
    \/ \E ok \in BOOLEAN : Seq_LoopSingle(ok)
    \/ Seq_LoopSimple
    \/ \E ok \in BOOLEAN : Seq_LoopStream(ok)

SpecSeq == Init /\ [][NextSeq]_vars

\* ------------------------------------------------------------------------
\* The packet builders on their own: one call on inputs drawn from small sets
\* ------------------------------------------------------------------------
\* uint16_t values of packet_buffer
EncValues == { 0, 1, 10, 4095, 4096, 4097, 8191, 32768, 61440, 65535 }

\* contents of packet_buffer: 10, 20, ..., 100; one value in every slot; a
\* different value in every slot
EncBuffers ==
    { [i \in 1..PACKET_SAMPLES |-> 10 * i] }
    \cup { [i \in 1..PACKET_SAMPLES |-> v] : v \in EncValues }
    \cup { [i \in 1..PACKET_SAMPLES |-> (v + 4099 * i) % 65536] : v \in EncValues }

\* values of packet_id when a packet is built
EncIds == { 1, 2, 254, 255 }

\* values of millis()
EncTimes == { 0, 255, 256, 65535, 65536, 16777216, 305419896, 2147483647 }

\* values of stream_sample_counter
EncCounters == { 1, 4090, 4096, 65530 }

InitEnc ==
    /\ InitRest
    /\ packet_id \in EncIds
    /\ clock \in EncTimes
    /\ timer = U32(0)
    /\ age = U32(0)
    /\ \/ /\ variant = "single"
          /\ packet_buffer \in EncBuffers
          /\ stream_sample_counter = 1
       \/ /\ variant = "dual"
          /\ packet_buffer = [i \in 1..PACKET_SAMPLES |-> 0]
          /\ stream_sample_counter \in EncCounters

\* sendPacket(packet_buffer) of the single-mode image
Enc_sendPacket ==
    /\ variant = "single"
    /\ tx_kind = "none"
    /\ tx' = PacketBytes(packet_id, clock, packet_buffer)
    /\ tx_kind' = "packet"
    /\ prev_id' = packet_id
    /\ packet_id' = IncPacketId(packet_id)
    /\ UNCHANGED << variant, deviceConnected, streaming, sample_index, packet_buffer,
                    total_sample_count, simple_mode, stream_mode, simple_counter,
                    stream_sample_counter, last_simple_time, last_stream_time, clock,
                    ticks, loop_pc, loop_now, loop_sample, loop_reg, loop_id,
                    loop_ts, loop_samples, ble_pc, overlapped, epoch, reads,
                    start_reads, reset_reads, session_tx, last_stop, after_stop,
                    armed, switch_phase, iter_text, iter_packet, timer,
                    last_sample_time, is_recording, sample_count, cmd, cmds, age,
                    since_start, since_sample, fired, session_lines, delivered_id,
                    undelivered, host_connected, packets, bufferIndex, buffer,
                    sampleCounter, at_read >>

\* buildBinaryPacket() of the dual-mode image
Enc_buildBinaryPacket ==
    /\ variant = "dual"
    /\ tx_kind = "none"
    /\ tx' = Frame(packet_id, clock,
                   CounterSamples(stream_sample_counter, 1, PACKET_SAMPLES))
    /\ tx_kind' = "packet"
    /\ prev_id' = packet_id
    /\ packet_id' = IncPacketId(packet_id)
    /\ stream_sample_counter' = stream_sample_counter + PACKET_SAMPLES
    /\ UNCHANGED << variant, deviceConnected, streaming, sample_index, packet_buffer,
                    total_sample_count, simple_mode, stream_mode, simple_counter,
                    last_simple_time, last_stream_time, clock, ticks, loop_pc,
                    loop_now, loop_sample, loop_reg, loop_id, loop_ts, loop_samples,
                    ble_pc, overlapped, epoch, reads, start_reads, reset_reads,
                    session_tx, last_stop, after_stop, armed, switch_phase,
                    iter_text, iter_packet, timer, last_sample_time, is_recording,
                    sample_count, cmd, cmds, age, since_start, since_sample, fired,
                    session_lines, delivered_id, undelivered, host_connected,
                    packets, bufferIndex, buffer, sampleCounter, at_read >>

NextEnc == Enc_sendPacket \/ Enc_buildBinaryPacket

SpecEnc == InitEnc /\ [][NextEnc]_vars

\* ------------------------------------------------------------------------
\* Timed handler-level model: every callback and every iteration of loop()
\* runs to completion before the next begins and takes no time; the timers
\* advance between them.  An iteration of loop() that neither takes a command
\* nor passes a time test changes nothing and is left out.
\* ------------------------------------------------------------------------
\* the firmware images
Variants == { "single", "dual", "usb", "recorder" }

\* values of micros() when setup() returns: 0, 2^32 - 2000 (wraps within one
\* sample interval) and 2^32 - 4502000 (wraps 2 ms after the stabilization
\* delay of a START handled right away)
InitTimers == { U32(0), [hi |-> 65535, lo |-> 63536], [hi |-> 65467, lo |-> 19984] }

\* steps of the timer between two handlers: below, at and above the interval
\* of the image (microseconds; milliseconds in the dual-mode image)
TimeSteps(v) == IF v = "dual" THEN { STREAM_INTERVAL_MS, SIMPLE_INTERVAL_MS }
                ELSE { 1000, 3000, 9000 }

\* lines the host may send over the serial port
SerialLines == { << >>, START_LINE, STOP_LINE, START_LINE \o << 13 >>,
                 << 32 >> \o STOP_LINE, << 115, 116, 97, 114, 116 >> }

\* command.trim() and the comparisons of loop()
SerialToken(line) ==
    IF Trim(line) = START_LINE THEN "START"
    ELSE IF Trim(line) = STOP_LINE THEN "STOP" ELSE "ignored"

\* the age d later; 2^32 or more is not followed further
AgeAdd(a, d) ==
    LET lo == a.lo + (d % W16)
        hi == a.hi + (d \div W16) + (lo \div W16)
    IN  IF a.hi >= W16 \/ hi >= W16 THEN [hi |-> W16, lo |-> 0]
        ELSE [hi |-> hi, lo |-> lo % W16]

\* the age after the instant it is measured from moved d later
AgeSub(a, d) == IF a.hi >= W16 THEN a ELSE Sub32(a, U32(d))

\* the time test of loop(): micros() - last_sample_time >= 4000
SampleDue == Elapsed32(timer, last_sample_time, SAMPLE_INTERVAL_US)

InitTime ==
    /\ InitRest
    /\ variant \in Variants
    /\ packet_id = IF variant = "single" THEN 0 ELSE 1
    /\ packet_buffer = [i \in 1..PACKET_SAMPLES |-> 0]
    /\ stream_sample_counter = 1
    /\ clock = 0
    /\ timer \in IF variant = "dual" THEN { U32(0) } ELSE InitTimers
    /\ age = timer

\* time passes between two handlers
Time_Tick(d) ==
    /\ ticks < MaxTimeTicks
    /\ ticks' = ticks + 1
    /\ fired' = FALSE
    /\ IF variant = "dual"
       THEN clock' = clock + d /\ timer' = timer
       ELSE clock' = clock /\ timer' = Add32(timer, d)
    /\ age' = AgeAdd(age, d)
    /\ since_start' = Later(since_start, d)
    /\ since_sample' = IF since_sample = -1 THEN -1 ELSE Later(since_sample, d)
    /\ UNCHANGED << variant, deviceConnected, streaming, packet_id, sample_index,
                    packet_buffer, total_sample_count, simple_mode, stream_mode,
                    simple_counter, stream_sample_counter, last_simple_time,
                    last_stream_time, loop_pc, loop_now, loop_sample, loop_reg,
                    loop_id, loop_ts, loop_samples, ble_pc, overlapped, epoch, reads,
                    start_reads, reset_reads, session_tx, last_stop, after_stop,
                    armed, prev_id, switch_phase, tx, tx_kind, iter_text,
                    iter_packet, last_sample_time, is_recording, sample_count, cmd,
                    cmds, session_lines, delivered_id, undelivered, host_connected,
                    packets, bufferIndex, buffer, sampleCounter, at_read >>

Time_LoopUsbMutNoGuard(avail, line) ==
    /\ variant = "usb"
    /\ avail => cmds < MaxTimeCmds
    /\ avail => host_connected
    /\ LET token == IF avail THEN SerialToken(line) ELSE "none"
           starts == token = "START" /\ ~is_recording
           stops == token = "STOP"
           rec == (is_recording \/ starts) /\ ~stops
           last == IF starts THEN timer ELSE last_sample_time
           count == IF starts \/ stops THEN 0 ELSE sample_count
           due == rec /\ Elapsed32(timer, last, SAMPLE_INTERVAL_US)
           done == FALSE
       IN  /\ avail \/ due
           /\ cmd' = IF avail THEN token ELSE cmd
           /\ cmds' = IF avail THEN cmds + 1 ELSE cmds
           /\ is_recording' = (rec /\ ~done)
           /\ sample_count' = IF done THEN 0 ELSE IF due THEN count + 1 ELSE count
           /\ last_sample_time' = IF due THEN timer ELSE last
           /\ age' = IF due THEN U32(0) ELSE IF starts THEN U32(0) ELSE age
           /\ since_start' = IF starts THEN 0 ELSE since_start
           /\ since_sample' = IF due THEN 0 ELSE IF starts THEN -1 ELSE since_sample
           /\ fired' = due
           /\ reads' = IF due THEN reads + 1 ELSE reads
           /\ start_reads' = IF starts THEN reads ELSE start_reads
           /\ tx' = IF due THEN Digits(ADCReading(count + 1)) ELSE << >>
           /\ tx_kind' = IF due THEN "serial"
                         ELSE IF starts \/ stops THEN "status" ELSE "none"
    /\ UNCHANGED << variant, deviceConnected, streaming, packet_id, sample_index,
                    packet_buffer, total_sample_count, simple_mode, stream_mode,
                    simple_counter, stream_sample_counter, last_simple_time,
                    last_stream_time, clock, ticks, loop_pc, loop_now, loop_sample,
                    loop_reg, loop_id, loop_ts, loop_samples, ble_pc, overlapped,
                    epoch, reset_reads, session_tx, last_stop, after_stop, armed,
                    prev_id, switch_phase, iter_text, iter_packet, timer,
                    session_lines, delivered_id, undelivered, host_connected,
                    packets, bufferIndex, buffer, sampleCounter, at_read >>

\* loop() of the USB streamer: the command part, then the sample part
Time_LoopUsb(avail, line) ==
    /\ variant = "usb"
    /\ avail => cmds < MaxTimeCmds
    /\ avail => host_connected
    /\ LET token == IF avail THEN SerialToken(line) ELSE "none"
           starts == token = "START" /\ ~is_recording
           stops == token = "STOP" /\ is_recording
           rec == (is_recording \/ starts) /\ ~stops
           last == IF starts THEN timer ELSE last_sample_time
           count == IF starts \/ stops THEN 0 ELSE sample_count
           due == rec /\ Elapsed32(timer, last, SAMPLE_INTERVAL_US)
           done == FALSE
       IN  /\ avail \/ due
           /\ cmd' = IF avail THEN token ELSE cmd
           /\ cmds' = IF avail THEN cmds + 1 ELSE cmds
           /\ is_recording' = (rec /\ ~done)
           /\ sample_count' = IF done THEN 0 ELSE IF due THEN count + 1 ELSE count
           /\ last_sample_time' = IF due THEN timer ELSE last
           /\ age' = IF due THEN U32(0) ELSE IF starts THEN U32(0) ELSE age
           /\ since_start' = IF starts THEN 0 ELSE since_start
           /\ since_sample' = IF due THEN 0 ELSE IF starts THEN -1 ELSE since_sample
           /\ fired' = due
           /\ reads' = IF due THEN reads + 1 ELSE reads
           /\ start_reads' = IF starts THEN reads ELSE start_reads
           /\ tx' = IF due THEN Digits(ADCReading(count + 1)) ELSE << >>
           /\ tx_kind' = IF due THEN "serial"
                         ELSE IF starts \/ stops THEN "status" ELSE "none"
    /\ UNCHANGED << variant, deviceConnected, streaming, packet_id, sample_index,
                    packet_buffer, total_sample_count, simple_mode, stream_mode,
                    simple_counter, stream_sample_counter, last_simple_time,
                    last_stream_time, clock, ticks, loop_pc, loop_now, loop_sample,
                    loop_reg, loop_id, loop_ts, loop_samples, ble_pc, overlapped,
                    epoch, reset_reads, session_tx, last_stop, after_stop, armed,
                    prev_id, switch_phase, iter_text, iter_packet, timer,
                    session_lines, delivered_id, undelivered, host_connected,
                    packets, bufferIndex, buffer, sampleCounter, at_read >>

Time_LoopRecorderMutLate(avail, line) ==
    /\ variant = "recorder"
    /\ avail => cmds < MaxTimeCmds
    /\ (avail /\ SerialToken(line) = "START" /\ ~is_recording) => epoch < MaxRecordings
    /\ LET token == IF avail THEN SerialToken(line) ELSE "none"
           starts == token = "START" /\ ~is_recording
           stops == FALSE
           rec == (is_recording \/ starts) /\ ~stops
           last == IF starts THEN timer ELSE last_sample_time
           count == IF starts \/ stops THEN 0 ELSE sample_count
           due == rec /\ Elapsed32(timer, last, SAMPLE_INTERVAL_US)
           done == due /\ count + 1 > TOTAL_SAMPLES
       IN  /\ avail \/ due
           /\ cmd' = IF avail THEN token ELSE cmd
           /\ cmds' = IF avail THEN cmds + 1 ELSE cmds
           /\ is_recording' = (rec /\ ~done)
           /\ sample_count' = IF done THEN 0 ELSE IF due THEN count + 1 ELSE count
           /\ last_sample_time' = IF due THEN Add32(last, SAMPLE_INTERVAL_US) ELSE last
           /\ age' = IF due THEN AgeSub(IF starts THEN U32(0) ELSE age, SAMPLE_INTERVAL_US) ELSE IF starts THEN U32(0) ELSE age
           /\ since_start' = IF starts THEN 0 ELSE since_start
           /\ since_sample' = IF due THEN 0 ELSE IF starts THEN -1 ELSE since_sample
           /\ fired' = due
           /\ reads' = IF due THEN reads + 1 ELSE reads
           /\ start_reads' = IF starts THEN reads ELSE start_reads
           /\ epoch' = IF starts THEN epoch + 1 ELSE epoch
           /\ tx' = IF due THEN Digits(ADCReading(count + 1)) ELSE << >>
           /\ tx_kind' = IF due THEN "serial"
                         ELSE IF starts \/ stops THEN "status" ELSE "none"
    /\ UNCHANGED << variant, deviceConnected, streaming, packet_id, sample_index,
                    packet_buffer, total_sample_count, simple_mode, stream_mode,
                    simple_counter, stream_sample_counter, last_simple_time,
                    last_stream_time, clock, ticks, loop_pc, loop_now, loop_sample,
                    loop_reg, loop_id, loop_ts, loop_samples, ble_pc, overlapped,
                    reset_reads, session_tx, last_stop, after_stop, armed, prev_id,
                    switch_phase, iter_text, iter_packet, timer, session_lines,
                    delivered_id, undelivered, host_connected, packets, bufferIndex,
                    buffer, sampleCounter, at_read >>

\* loop() of the 30 s recorder: the command part, then the sample part
Time_LoopRecorder(avail, line) ==
    /\ variant = "recorder"
    /\ avail => cmds < MaxTimeCmds
    /\ (avail /\ SerialToken(line) = "START" /\ ~is_recording) => epoch < MaxRecordings
    /\ LET token == IF avail THEN SerialToken(line) ELSE "none"
           starts == token = "START" /\ ~is_recording
           stops == FALSE
           rec == (is_recording \/ starts) /\ ~stops
           last == IF starts THEN timer ELSE last_sample_time
           count == IF starts \/ stops THEN 0 ELSE sample_count
           due == rec /\ Elapsed32(timer, last, SAMPLE_INTERVAL_US)
           done == due /\ count + 1 >= TOTAL_SAMPLES
       IN  /\ avail \/ due
           /\ cmd' = IF avail THEN token ELSE cmd
           /\ cmds' = IF avail THEN cmds + 1 ELSE cmds
           /\ is_recording' = (rec /\ ~done)
           /\ sample_count' = IF done THEN 0 ELSE IF due THEN count + 1 ELSE count
           /\ last_sample_time' = IF due THEN Add32(last, SAMPLE_INTERVAL_US) ELSE last
           /\ age' = IF due THEN AgeSub(IF starts THEN U32(0) ELSE age, SAMPLE_INTERVAL_US) ELSE IF starts THEN U32(0) ELSE age
           /\ since_start' = IF starts THEN 0 ELSE since_start
           /\ since_sample' = IF due THEN 0 ELSE IF starts THEN -1 ELSE since_sample
           /\ fired' = due
           /\ reads' = IF due THEN reads + 1 ELSE reads
           /\ start_reads' = IF starts THEN reads ELSE start_reads
           /\ epoch' = IF starts THEN epoch + 1 ELSE epoch
           /\ tx' = IF due THEN Digits(ADCReading(count + 1)) ELSE << >>
           /\ tx_kind' = IF due THEN "serial"
                         ELSE IF starts \/ stops THEN "status" ELSE "none"
    /\ UNCHANGED << variant, deviceConnected, streaming, packet_id, sample_index,
                    packet_buffer, total_sample_count, simple_mode, stream_mode,
                    simple_counter, stream_sample_counter, last_simple_time,
                    last_stream_time, clock, ticks, loop_pc, loop_now, loop_sample,
                    loop_reg, loop_id, loop_ts, loop_samples, ble_pc, overlapped,
                    reset_reads, session_tx, last_stop, after_stop, armed, prev_id,
                    switch_phase, iter_text, iter_packet, timer, session_lines,
                    delivered_id, undelivered, host_connected, packets, bufferIndex,
                    buffer, sampleCounter, at_read >>

\* ECGServerCallbacks::onConnect of either BLE image
Time_OnConnect ==
    /\ variant \in { "single", "dual" }
    /\ ~deviceConnected
    /\ deviceConnected' = TRUE
    /\ fired' = FALSE
    /\ UNCHANGED << variant, streaming, packet_id, sample_index, packet_buffer,
                    total_sample_count, simple_mode, stream_mode, simple_counter,
                    stream_sample_counter, last_simple_time, last_stream_time, clock,
                    ticks, loop_pc, loop_now, loop_sample, loop_reg, loop_id,
                    loop_ts, loop_samples, ble_pc, overlapped, epoch, reads,
                    start_reads, reset_reads, session_tx, last_stop, after_stop,
                    armed, prev_id, switch_phase, tx, tx_kind, iter_text,
                    iter_packet, timer, last_sample_time, is_recording, sample_count,
                    cmd, cmds, age, since_start, since_sample, session_lines,
                    delivered_id, undelivered, host_connected, packets, bufferIndex,
                    buffer, sampleCounter, at_read >>

\* ECGServerCallbacks::onDisconnect of either BLE image
Time_OnDisconnect ==
    /\ variant \in { "single", "dual" }
    /\ deviceConnected
    /\ deviceConnected' = FALSE
    /\ fired' = FALSE
    /\ streaming' = FALSE
    /\ simple_mode' = FALSE
    /\ stream_mode' = FALSE
    /\ UNCHANGED << variant, packet_id, sample_index, packet_buffer,
                    total_sample_count, simple_counter, stream_sample_counter,
                    last_simple_time, last_stream_time, clock, ticks, loop_pc,
                    loop_now, loop_sample, loop_reg, loop_id, loop_ts, loop_samples,
                    ble_pc, overlapped, epoch, reads, start_reads, reset_reads,
                    session_tx, last_stop, after_stop, armed, prev_id, switch_phase,
                    tx, tx_kind, iter_text, iter_packet, timer, last_sample_time,
                    is_recording, sample_count, cmd, cmds, age, since_start,
                    since_sample, session_lines, delivered_id, undelivered,
                    host_connected, packets, bufferIndex, buffer, sampleCounter,
                    at_read >>

\* CommandCallbacks::onWrite of the single-mode image, startStreaming() and its
\* delays included
Time_OnWriteSingle(rx) ==
    /\ variant = "single"
    /\ deviceConnected
    /\ cmds < MaxTimeCmds
    /\ cmd' = rx
    /\ fired' = FALSE
    /\ cmds' = cmds + 1
    /\ tx' = << >>
    /\ tx_kind' = "none"
    /\ IF SM_Token(rx) = "START"
       THEN /\ packet_id' = 1
            /\ sample_index' = 0
            /\ total_sample_count' = 0
            /\ timer' = Add32(timer, START_DELAY_US)
            /\ age' = AgeAdd(age, START_DELAY_US)
            /\ streaming' = TRUE
            /\ since_start' = 0
            /\ since_sample' = -1
       ELSE /\ streaming' = IF SM_Token(rx) = "STOP" THEN FALSE ELSE streaming
            /\ UNCHANGED << packet_id, sample_index, total_sample_count, timer, age,
                            since_start, since_sample >>
    /\ UNCHANGED << variant, deviceConnected, packet_buffer, simple_mode,
                    stream_mode, simple_counter, stream_sample_counter,
                    last_simple_time, last_stream_time, clock, ticks, loop_pc,
                    loop_now, loop_sample, loop_reg, loop_id, loop_ts, loop_samples,
                    ble_pc, overlapped, epoch, reads, start_reads, reset_reads,
                    session_tx, last_stop, after_stop, armed, prev_id, switch_phase,
                    iter_text, iter_packet, last_sample_time, is_recording,
                    sample_count, session_lines, delivered_id, undelivered,
                    host_connected, packets, bufferIndex, buffer, sampleCounter,
                    at_read >>

Time_OnWriteDualMutShared(rx) ==
    /\ variant = "dual"
    /\ deviceConnected
    /\ cmds < MaxTimeCmds
    /\ cmd' = rx
    /\ fired' = FALSE
    /\ cmds' = cmds + 1
    /\ tx' = << >>
    /\ tx_kind' = "none"
    /\ simple_mode' = IF DM_Token(rx) = "START_SIMPLE" THEN TRUE
                      ELSE IF DM_Token(rx) \in { "STOP_SIMPLE", "START_STREAM" } THEN FALSE
                      ELSE simple_mode
    /\ stream_mode' = IF DM_Token(rx) = "START_STREAM" THEN TRUE
                      ELSE IF DM_Token(rx) \in { "STOP_STREAM", "START_SIMPLE" } THEN FALSE
                      ELSE stream_mode
    /\ simple_counter' = IF DM_Token(rx) \in { "START_SIMPLE", "START_STREAM" } THEN 1
                         ELSE simple_counter
    /\ last_simple_time' = IF DM_Token(rx) = "START_SIMPLE" THEN clock ELSE last_simple_time
    /\ packet_id' = IF DM_Token(rx) = "START_STREAM" THEN 1 ELSE packet_id
    /\ stream_sample_counter' = IF DM_Token(rx) = "START_STREAM" THEN 1
                                ELSE stream_sample_counter
    /\ last_stream_time' = IF DM_Token(rx) = "START_STREAM" THEN clock ELSE last_stream_time
    /\ since_start' = IF DM_Token(rx) \in { "START_SIMPLE", "START_STREAM" } THEN 0
                      ELSE since_start
    /\ since_sample' = IF DM_Token(rx) \in { "START_SIMPLE", "START_STREAM" } THEN -1
                       ELSE since_sample
    /\ UNCHANGED << variant, deviceConnected, streaming, sample_index, packet_buffer,
                    total_sample_count, clock, ticks, loop_pc, loop_now, loop_sample,
                    loop_reg, loop_id, loop_ts, loop_samples, ble_pc, overlapped,
                    epoch, reads, start_reads, reset_reads, session_tx, last_stop,
                    after_stop, armed, prev_id, switch_phase, iter_text, iter_packet,
                    timer, last_sample_time, is_recording, sample_count, age,
                    session_lines, delivered_id, undelivered, host_connected,
                    packets, bufferIndex, buffer, sampleCounter, at_read >>

\* CommandCallbacks::onWrite of the dual-mode image
Time_OnWriteDual(rx) ==
    /\ variant = "dual"
    /\ deviceConnected
    /\ cmds < MaxTimeCmds
    /\ cmd' = rx
    /\ fired' = FALSE
    /\ cmds' = cmds + 1
    /\ tx' = << >>
    /\ tx_kind' = "none"
    /\ simple_mode' = IF DM_Token(rx) = "START_SIMPLE" THEN TRUE
                      ELSE IF DM_Token(rx) \in { "STOP_SIMPLE", "START_STREAM" } THEN FALSE
                      ELSE simple_mode
    /\ stream_mode' = IF DM_Token(rx) = "START_STREAM" THEN TRUE
                      ELSE IF DM_Token(rx) \in { "STOP_STREAM", "START_SIMPLE" } THEN FALSE
                      ELSE stream_mode
    /\ simple_counter' = IF DM_Token(rx) = "START_SIMPLE" THEN 1 ELSE simple_counter
    /\ last_simple_time' = IF DM_Token(rx) = "START_SIMPLE" THEN clock ELSE last_simple_time
    /\ packet_id' = IF DM_Token(rx) = "START_STREAM" THEN 1 ELSE packet_id
    /\ stream_sample_counter' = IF DM_Token(rx) = "START_STREAM" THEN 1
                                ELSE stream_sample_counter
    /\ last_stream_time' = IF DM_Token(rx) = "START_STREAM" THEN clock ELSE last_stream_time
    /\ since_start' = IF DM_Token(rx) \in { "START_SIMPLE", "START_STREAM" } THEN 0
                      ELSE since_start
    /\ since_sample' = IF DM_Token(rx) \in { "START_SIMPLE", "START_STREAM" } THEN -1
                       ELSE since_sample
    /\ UNCHANGED << variant, deviceConnected, streaming, sample_index, packet_buffer,
                    total_sample_count, clock, ticks, loop_pc, loop_now, loop_sample,
                    loop_reg, loop_id, loop_ts, loop_samples, ble_pc, overlapped,
                    epoch, reads, start_reads, reset_reads, session_tx, last_stop,
                    after_stop, armed, prev_id, switch_phase, iter_text, iter_packet,
                    timer, last_sample_time, is_recording, sample_count, age,
                    session_lines, delivered_id, undelivered, host_connected,
                    packets, bufferIndex, buffer, sampleCounter, at_read >>

\* loop() of the single-mode image when the time test passes:
\* addADCSampleToBuffer(), sendPacket() included
Time_LoopSingle ==
    /\ variant = "single"
    /\ deviceConnected
    /\ streaming
    /\ SampleDue
    /\ last_sample_time' = timer
    /\ age' = U32(0)
    /\ since_sample' = 0
    /\ fired' = TRUE
    /\ total_sample_count' = total_sample_count + 1
    /\ packet_buffer' = [packet_buffer EXCEPT
                            ![sample_index + 1] = ADCReading(total_sample_count + 1)]
    /\ IF BufferFull(U8Inc(sample_index))
       THEN /\ tx' = PacketBytes(packet_id, clock, packet_buffer')
            /\ tx_kind' = "packet"
            /\ packet_id' = IncPacketId(packet_id)
            /\ sample_index' = 0
       ELSE /\ tx' = << >>
            /\ tx_kind' = "none"
            /\ sample_index' = U8Inc(sample_index)
            /\ UNCHANGED packet_id
    /\ UNCHANGED << variant, deviceConnected, streaming, simple_mode, stream_mode,
                    simple_counter, stream_sample_counter, last_simple_time,
                    last_stream_time, clock, ticks, loop_pc, loop_now, loop_sample,
                    loop_reg, loop_id, loop_ts, loop_samples, ble_pc, overlapped,
                    epoch, reads, start_reads, reset_reads, session_tx, last_stop,
                    after_stop, armed, prev_id, switch_phase, iter_text, iter_packet,
                    timer, is_recording, sample_count, cmd, cmds, since_start,
                    session_lines, delivered_id, undelivered, host_connected,
                    packets, bufferIndex, buffer, sampleCounter, at_read >>

\* loop() of the dual-mode image when the time test of simple mode passes
Time_LoopSimple ==
    /\ variant = "dual"
    /\ deviceConnected
    /\ simple_mode
    /\ ~stream_mode
    /\ Elapsed(clock, last_simple_time, SIMPLE_INTERVAL_MS)
    /\ last_simple_time' = clock
    /\ since_sample' = 0
    /\ fired' = TRUE
    /\ tx' = buildSimpleMessage(MSG_BUF_SIZE, simple_counter)
    /\ tx_kind' = "text"
    /\ simple_counter' = simple_counter + 1
    /\ UNCHANGED << variant, deviceConnected, streaming, packet_id, sample_index,
                    packet_buffer, total_sample_count, simple_mode, stream_mode,
                    stream_sample_counter, last_stream_time, clock, ticks, loop_pc,
                    loop_now, loop_sample, loop_reg, loop_id, loop_ts, loop_samples,
                    ble_pc, overlapped, epoch, reads, start_reads, reset_reads,
                    session_tx, last_stop, after_stop, armed, prev_id, switch_phase,
                    iter_text, iter_packet, timer, last_sample_time, is_recording,
                    sample_count, cmd, cmds, age, since_start, session_lines,
                    delivered_id, undelivered, host_connected, packets, bufferIndex,
                    buffer, sampleCounter, at_read >>

\* loop() of the dual-mode image when the time test of stream mode passes,
\* buildBinaryPacket() included
Time_LoopStream ==
    /\ variant = "dual"
    /\ deviceConnected
    /\ stream_mode
    /\ ~simple_mode
    /\ Elapsed(clock, last_stream_time, STREAM_INTERVAL_MS)
    /\ last_stream_time' = clock
    /\ since_sample' = 0
    /\ fired' = TRUE
    /\ tx' = Frame(packet_id, clock,
                   CounterSamples(stream_sample_counter, 1, PACKET_SAMPLES))
    /\ tx_kind' = "packet"
    /\ packet_id' = IncPacketId(packet_id)
    /\ stream_sample_counter' = stream_sample_counter + PACKET_SAMPLES
    /\ UNCHANGED << variant, deviceConnected, streaming, sample_index, packet_buffer,
                    total_sample_count, simple_mode, stream_mode, simple_counter,
                    last_simple_time, clock, ticks, loop_pc, loop_now, loop_sample,
                    loop_reg, loop_id, loop_ts, loop_samples, ble_pc, overlapped,
                    epoch, reads, start_reads, reset_reads, session_tx, last_stop,
                    after_stop, armed, prev_id, switch_phase, iter_text, iter_packet,
                    timer, last_sample_time, is_recording, sample_count, cmd, cmds,
                    age, since_start, session_lines, delivered_id, undelivered,
                    host_connected, packets, bufferIndex, buffer, sampleCounter,
                    at_read >>

\* USB streamer: the host closes the port or the cable is pulled; the sketch has no
\* handler for it and loop() never tests the connection (part_000:545-584)
Time_HostLost ==
    /\ variant = "usb"
    /\ host_connected
    /\ host_connected' = FALSE
    /\ fired' = FALSE
    /\ UNCHANGED << variant, deviceConnected, streaming, packet_id, sample_index,
                    packet_buffer, total_sample_count, simple_mode, stream_mode,
                    simple_counter, stream_sample_counter, last_simple_time,
                    last_stream_time, clock, ticks, loop_pc, loop_now, loop_sample,
                    loop_reg, loop_id, loop_ts, loop_samples, ble_pc, overlapped,
                    epoch, reads, start_reads, reset_reads, session_tx, last_stop,
                    after_stop, armed, prev_id, switch_phase, tx, tx_kind, iter_text,
                    iter_packet, timer, last_sample_time, is_recording, sample_count,
                    cmd, cmds, age, since_start, since_sample, session_lines,
                    delivered_id, undelivered, packets, bufferIndex, buffer,
                    sampleCounter, at_read >>

NextTime ==
    \/ \E d \in TimeSteps(variant) : Time_Tick(d)
    \/ Time_OnConnect
    \/ Time_OnDisconnect
    \/ \E rx \in Commands : Time_OnWriteSingle(rx)
    \/ \E rx \in Commands : Time_OnWriteDual(rx)
    \/ Time_LoopSingle
    \/ Time_LoopSimple
    \/ Time_LoopStream
    \/ \E line \in SerialLines : Time_LoopUsb(TRUE, line)
    \/ Time_LoopUsb(FALSE, << >>)
    \/ Time_HostLost
    \/ \E line \in SerialLines : Time_LoopRecorder(TRUE, line)
    \/ Time_LoopRecorder(FALSE, << >>)

SpecTime == InitTime /\ [][NextTime]_vars

\* the 30 s recorder is recording, the time test of an iteration of loop() has
\* failed, and micros() advances by one sample interval before the next iteration
Rec_Tick ==
    /\ variant = "recorder"
    /\ is_recording
    /\ ~SampleDue
    /\ fired' = FALSE
    /\ timer' = Add32(timer, SAMPLE_INTERVAL_US)
    /\ age' = AgeAdd(age, SAMPLE_INTERVAL_US)
    /\ since_start' = Later(since_start, SAMPLE_INTERVAL_US)
    /\ since_sample' = IF since_sample = -1 THEN -1
                       ELSE Later(since_sample, SAMPLE_INTERVAL_US)
    /\ UNCHANGED << variant, deviceConnected, streaming, packet_id, sample_index,
                    packet_buffer, total_sample_count, simple_mode, stream_mode,
                    simple_counter, stream_sample_counter, last_simple_time,
                    last_stream_time, clock, ticks, loop_pc, loop_now, loop_sample,
                    loop_reg, loop_id, loop_ts, loop_samples, ble_pc, overlapped,
                    epoch, reads, start_reads, reset_reads, session_tx, last_stop,
                    after_stop, armed, prev_id, switch_phase, tx, tx_kind, iter_text,
                    iter_packet, last_sample_time, is_recording, sample_count, cmd,
                    cmds, session_lines, delivered_id, undelivered, host_connected,
                    packets, bufferIndex, buffer, sampleCounter, at_read >>

\* the 30 s recorder over a whole recording, with micros() 2000 us before
\* its wrap when the first command arrives
InitRec ==
    /\ InitTime
    /\ variant = "recorder"
    /\ timer = [hi |-> 65535, lo |-> 63536]

\* lines the host sends during a recording
RecLines == { START_LINE, STOP_LINE }

NextRec ==
    \/ Rec_Tick
    \/ \E line \in RecLines : Time_LoopRecorder(TRUE, line)
    \/ Time_LoopRecorder(FALSE, << >>)

\* loop() is called again and again and micros() keeps advancing
SpecRec ==
    /\ InitRec
    /\ [][NextRec]_vars
    /\ WF_vars(Rec_Tick)
    /\ WF_vars(Time_LoopRecorder(FALSE, << >>))

\* ------------------------------------------------------------------------
\* The synthetic-heartbeat streamer (part_001): one beat is generated in
\* setup() and streamed over the serial port in packets of ten values.
\* An action is one iteration of loop().
\* ------------------------------------------------------------------------
\* #define PACKET_SIZE
SYNTH_PACKET_SIZE == 10

\* #define PACKETS
PACKETS == 41

frequency_hz == 500

\* int(0.xx * frequency_hz) of full_heart_beat(), the fraction given in hundredths
SegmentLen(hundredths) == (hundredths * frequency_hz) \div 100

\* ecg_beat_digital.size(): full_heart_beat() concatenates P, PR, QRS, ST, T and TP,
\* p_wave(n), t_wave(n) and flat(n) return n values, qrs_complex(n) returns
\* q + r + (n - q - r) values, and convert_to_digital() keeps the length
TableLen ==
    SegmentLen(8) + SegmentLen(4) + SegmentLen(8) + SegmentLen(12) + SegmentLen(16)
    + SegmentLen(32)

\* the table: every entry stands for itself, so a streamed value identifies the
\* entry it was read from
ecg_beat_digital == [i \in 0..(TableLen - 1) |-> i]

\* what ecg_beat_digital[i] yields: the entry, or whatever lies behind the
\* vector's storage when i is out of range
TableRead(i) == IF i \in DOMAIN ecg_beat_digital THEN { ecg_beat_digital[i] } ELSE { -1, -2 }

\* lines the host sends in one run
MaxSynthCmds == 3

\* loop() if the table were replayed without end: no packet limit, the index wrapping
Synth_LoopMutWrap(avail, line) ==
    /\ variant = "synth"
    /\ avail => cmds < MaxSynthCmds
    /\ LET token == IF avail THEN SerialToken(line) ELSE "none"
           starts == token = "START"
           stops == token = "STOP"
           str == (streaming \/ starts) /\ ~stops
           pk == IF starts THEN 1 ELSE packets
           bi == IF starts THEN 0 ELSE bufferIndex
           sc == IF starts THEN 0 ELSE sampleCounter
           takes == str /\ TRUE
           full == takes /\ bi + 1 >= SYNTH_PACKET_SIZE
       IN  /\ avail \/ streaming
           /\ cmd' = IF avail THEN token ELSE cmd
           /\ cmds' = IF avail THEN cmds + 1 ELSE cmds
           /\ streaming' = takes
           /\ \E sample \in TableRead(sc) :
                buffer' = IF takes /\ bi \in DOMAIN buffer
                          THEN [buffer EXCEPT ![bi] = sample] ELSE buffer
           /\ bufferIndex' = IF full THEN 0 ELSE IF takes THEN bi + 1 ELSE bi
           /\ packets' = IF full THEN pk + 1 ELSE pk
           /\ sampleCounter' = IF takes THEN (sc + 1) % TableLen ELSE sc
           /\ at_read' = IF takes
                         THEN [sampleCounter |-> sc, packets |-> pk, bufferIndex |-> bi]
                         ELSE at_read
           /\ fired' = takes
           /\ tx' = IF full THEN << pk >> \o [i \in 1..SYNTH_PACKET_SIZE |-> buffer'[i - 1]]
                    ELSE << >>
           /\ tx_kind' = IF full THEN "packet"
                         ELSE IF starts \/ stops \/ (str /\ ~takes) THEN "status"
                         ELSE "none"
    /\ UNCHANGED << variant, deviceConnected, packet_id, sample_index, packet_buffer,
                    total_sample_count, simple_mode, stream_mode, simple_counter,
                    stream_sample_counter, last_simple_time, last_stream_time, clock,
                    ticks, loop_pc, loop_now, loop_sample, loop_reg, loop_id,
                    loop_ts, loop_samples, ble_pc, overlapped, epoch, reads,
                    start_reads, reset_reads, session_tx, last_stop, after_stop,
                    armed, prev_id, switch_phase, iter_text, iter_packet, timer,
                    last_sample_time, is_recording, sample_count, age, since_start,
                    since_sample, session_lines, delivered_id, undelivered,
                    host_connected >>

\* loop() with 'packets <= PACKETS' for 'packets < PACKETS'
Synth_LoopMutLate(avail, line) ==
    /\ variant = "synth"
    /\ avail => cmds < MaxSynthCmds
    /\ LET token == IF avail THEN SerialToken(line) ELSE "none"
           starts == token = "START"
           stops == token = "STOP"
           str == (streaming \/ starts) /\ ~stops
           pk == IF starts THEN 1 ELSE packets
           bi == IF starts THEN 0 ELSE bufferIndex
           sc == IF starts THEN 0 ELSE sampleCounter
           takes == str /\ pk <= PACKETS
           full == takes /\ bi + 1 >= SYNTH_PACKET_SIZE
       IN  /\ avail \/ streaming
           /\ cmd' = IF avail THEN token ELSE cmd
           /\ cmds' = IF avail THEN cmds + 1 ELSE cmds
           /\ streaming' = takes
           /\ \E sample \in TableRead(sc) :
                buffer' = IF takes /\ bi \in DOMAIN buffer
                          THEN [buffer EXCEPT ![bi] = sample] ELSE buffer
           /\ bufferIndex' = IF full THEN 0 ELSE IF takes THEN bi + 1 ELSE bi
           /\ packets' = IF full THEN pk + 1 ELSE pk
           /\ sampleCounter' = IF takes THEN sc + 1 ELSE sc
           /\ at_read' = IF takes
                         THEN [sampleCounter |-> sc, packets |-> pk, bufferIndex |-> bi]
                         ELSE at_read
           /\ fired' = takes
           /\ tx' = IF full THEN << pk >> \o [i \in 1..SYNTH_PACKET_SIZE |-> buffer'[i - 1]]
                    ELSE << >>
           /\ tx_kind' = IF full THEN "packet"
                         ELSE IF starts \/ stops \/ (str /\ ~takes) THEN "status"
                         ELSE "none"
    /\ UNCHANGED << variant, deviceConnected, packet_id, sample_index, packet_buffer,
                    total_sample_count, simple_mode, stream_mode, simple_counter,
                    stream_sample_counter, last_simple_time, last_stream_time, clock,
                    ticks, loop_pc, loop_now, loop_sample, loop_reg, loop_id,
                    loop_ts, loop_samples, ble_pc, overlapped, epoch, reads,
                    start_reads, reset_reads, session_tx, last_stop, after_stop,
                    armed, prev_id, switch_phase, iter_text, iter_packet, timer,
                    last_sample_time, is_recording, sample_count, age, since_start,
                    since_sample, session_lines, delivered_id, undelivered,
                    host_connected >>

\* loop() of part_001 (183-221): a line, if one is available, is read, trimmed and
\* compared (185-204); START restarts the three counters whether or not a stream
\* is running; then, while streaming, one table entry is read and put into the
\* packet (206-215, addToPacket 159-168, sendPacket 170-182), or, with PACKETS - 1
\* packets sent, streaming ends (216-220).  avail: a line is waiting.  An index
\* outside buffer[] or the table is recorded in at_read; what the stray access
\* does to memory is not followed further
Synth_Loop(avail, line) ==
    /\ variant = "synth"
    /\ avail => cmds < MaxSynthCmds
    /\ LET token == IF avail THEN SerialToken(line) ELSE "none"
           starts == token = "START"
           stops == token = "STOP"
           str == (streaming \/ starts) /\ ~stops
           pk == IF starts THEN 1 ELSE packets
           bi == IF starts THEN 0 ELSE bufferIndex
           sc == IF starts THEN 0 ELSE sampleCounter
           takes == str /\ pk < PACKETS
           full == takes /\ bi + 1 >= SYNTH_PACKET_SIZE
       IN  /\ avail \/ streaming
           /\ cmd' = IF avail THEN token ELSE cmd
           /\ cmds' = IF avail THEN cmds + 1 ELSE cmds
           /\ streaming' = takes
           /\ \E sample \in TableRead(sc) :
                buffer' = IF takes /\ bi \in DOMAIN buffer
                          THEN [buffer EXCEPT ![bi] = sample] ELSE buffer
           /\ bufferIndex' = IF full THEN 0 ELSE IF takes THEN bi + 1 ELSE bi
           /\ packets' = IF full THEN pk + 1 ELSE pk
           /\ sampleCounter' = IF takes THEN sc + 1 ELSE sc
           /\ at_read' = IF takes
                         THEN [sampleCounter |-> sc, packets |-> pk, bufferIndex |-> bi]
                         ELSE at_read
           /\ fired' = takes
           /\ tx' = IF full THEN << pk >> \o [i \in 1..SYNTH_PACKET_SIZE |-> buffer'[i - 1]]
                    ELSE << >>
           /\ tx_kind' = IF full THEN "packet"
                         ELSE IF starts \/ stops \/ (str /\ ~takes) THEN "status"
                         ELSE "none"
    /\ UNCHANGED << variant, deviceConnected, packet_id, sample_index, packet_buffer,
                    total_sample_count, simple_mode, stream_mode, simple_counter,
                    stream_sample_counter, last_simple_time, last_stream_time, clock,
                    ticks, loop_pc, loop_now, loop_sample, loop_reg, loop_id,
                    loop_ts, loop_samples, ble_pc, overlapped, epoch, reads,
                    start_reads, reset_reads, session_tx, last_stop, after_stop,
                    armed, prev_id, switch_phase, iter_text, iter_packet, timer,
                    last_sample_time, is_recording, sample_count, age, since_start,
                    since_sample, session_lines, delivered_id, undelivered,
                    host_connected >>

InitSynth ==
    /\ InitRest
    /\ variant = "synth"
    /\ packet_id = 1
    /\ packet_buffer = [i \in 1..PACKET_SAMPLES |-> 0]
    /\ stream_sample_counter = 1
    /\ clock = 0
    /\ timer = U32(0)
    /\ age = timer

NextSynth ==
    \/ \E line \in SerialLines : Synth_Loop(TRUE, line)
    \/ Synth_Loop(FALSE, << >>)

SpecSynth == InitSynth /\ [][NextSynth]_vars

\* ------------------------------------------------------------------------
\* Observations
\* ------------------------------------------------------------------------
\* a step in which loop() hands a binary packet to notify()
HandsPacket == loop_pc = "notify" /\ loop_pc' # "notify"

\* a step in which loop() hands a text line to notify()
HandsText == loop_pc = "simple_msg" /\ loop_pc' = "simple_load"

\* a step in which loop() acquires a sample
Acquires == reads' # reads \/ (variant = "dual" /\ loop_pc \in { "samples", "samples_store" })

\* the last acquisition made before the last START reset the cursor, the last
\* acquisition made so far while that reset is still to come
LastReset == IF ble_pc = "start_index" THEN reads ELSE reset_reads

\* the ten sample fields of packet bytes
Fields(bytes) == [i \in 1..PACKET_SAMPLES |-> SampleField(bytes, i)]

\* ------------------------------------------------------------------------
\* Properties
\* ------------------------------------------------------------------------
\* a step of the handler-level model in which loop() builds a binary packet
BuildsPacket ==
    /\ tx_kind' = "packet"
    /\ \/ total_sample_count' = total_sample_count + 1
       \/ stream_sample_counter' = stream_sample_counter + PACKET_SAMPLES

\* C1: single-mode image, handlers run one at a time: counted from the last
\* START, the 10th, 20th, ... acquisition hands over a packet that carries the
\* last ten acquisitions in acquisition order, and no other acquisition hands
\* anything over
C1_TenAcquisitionsOnePacket ==
    [][(variant = "single" /\ total_sample_count' = total_sample_count + 1) =>
          IF total_sample_count' % PACKET_SAMPLES = 0
          THEN /\ tx_kind' = "packet"
               /\ Len(tx') = 8 + 2 * PACKET_SAMPLES
               /\ Fields(tx') = [i \in 1..PACKET_SAMPLES |->
                                    ADCReading(total_sample_count' - PACKET_SAMPLES + i)]
          ELSE tx_kind' = "none" /\ tx' = << >>]_vars

\* the 20th acquisition of a session has handed over acquisitions 11..20
C1_Witness ==
    /\ variant = "single"
    /\ total_sample_count = 2 * PACKET_SAMPLES
    /\ tx_kind = "packet"
    /\ Fields(tx) = [i \in 1..PACKET_SAMPLES |-> ADCReading(PACKET_SAMPLES + i)]
    /\ sample_index = 0

EncInput(i) ==
    IF variant = "single" THEN packet_buffer[i]
    ELSE stream_sample_counter - PACKET_SAMPLES + i - 1

\* C3: a built packet is 28 bytes: 0xAA, 0x55, the sequence id the counter had,
\* the timestamp in four bytes least significant first, the ten samples in
\* buffer order in two bytes each least significant first, 0xFF; samples
\* 10, 20, ..., 100 with id 1 and timestamp 0x12345678 give
\* AA 55 01 78 56 34 12 0A00 1400 1E00 2800 3200 3C00 4600 5000 5A00 6400 FF
C3_PacketLayout ==
    tx_kind = "packet" =>
        /\ Len(tx) = 28
        /\ \A k \in 1..28 : tx[k] \in 0..255
        /\ tx[1] = 170 /\ tx[2] = 85
        /\ tx[3] = prev_id
        /\ tx[4] + 256 * tx[5] + 65536 * tx[6] + 16777216 * tx[7] = clock
        /\ \A i \in 1..PACKET_SAMPLES :
              /\ tx[6 + 2 * i] = (EncInput(i) % 4096) % 256
              /\ tx[7 + 2 * i] = (EncInput(i) % 4096) \div 256
        /\ tx[28] = 255
        /\ (/\ variant = "single"
            /\ packet_buffer = [i \in 1..PACKET_SAMPLES |-> 10 * i]
            /\ prev_id = 1
            /\ clock = 305419896) =>
              tx = << 170, 85, 1, 120, 86, 52, 18, 10, 0, 20, 0, 30, 0, 40, 0, 50, 0,
                      60, 0, 70, 0, 80, 0, 90, 0, 100, 0, 255 >>

\* the packet of the scenario has been built
C3_Witness ==
    /\ variant = "single"
    /\ tx_kind = "packet"
    /\ packet_buffer = [i \in 1..PACKET_SAMPLES |-> 10 * i]
    /\ prev_id = 1
    /\ clock = 305419896
    /\ tx[8] = 10 /\ tx[26] = 100

\* C4: every sample field of a built packet is the input sample modulo 4096,
\* so it is below 4096 (its top four bits are zero) and an input above 4095
\* wraps instead of becoming 4095
C4_SampleMask ==
    tx_kind = "packet" =>
        \A i \in 1..PACKET_SAMPLES :
            /\ SampleField(tx, i) = EncInput(i) % 4096
            /\ SampleField(tx, i) < 4096

\* a buffer of 4097s has been sent as fields of 1
C4_Witness ==
    /\ variant = "single"
    /\ tx_kind = "packet"
    /\ \A i \in 1..PACKET_SAMPLES : packet_buffer[i] = 4097 /\ SampleField(tx, i) = 1


\* C5: single-mode image, START dispatched right after STOP: once startStreaming()
\* has reset the cursor and until the first acquisition after that START, the
\* sequence counter is 1 and the cursor is 0; the first packet handed over after
\* that START has id 1 and carries the first ten acquisitions made after it
C5_RestartAfterStop ==
    /\ []((/\ variant = "single"
           /\ after_stop
           /\ ble_pc # "start_index"
           /\ reads = start_reads) => (packet_id = 1 /\ sample_index = 0))
    /\ [][(variant = "single" /\ after_stop /\ session_tx = 0 /\ HandsPacket) =>
            /\ tx'[3] = 1
            /\ Fields(tx') = [i \in 1..PACKET_SAMPLES |->
                                 ADCReading(start_reads + i)]]_vars

\* STOP came with 1..9 samples in the buffer, and the START after it has
\* handed over its first packet
C5_Witness ==
    /\ variant = "single"
    /\ after_stop
    /\ start_reads % PACKET_SAMPLES \in 1..(PACKET_SAMPLES - 1)
    /\ loop_pc = "reset"
    /\ tx_kind = "packet"
    /\ session_tx = 1
    /\ tx[3] = 1

\* C6: single-mode image: every packet handed over has ten sample fields, all
\* acquired after the last START was dispatched or all acquired before that
\* START reset the cursor
C6_OneSessionPerPacket ==
    [][(variant = "single" /\ HandsPacket) =>
          /\ Len(tx') = 8 + 2 * PACKET_SAMPLES
          /\ \/ \A i \in 1..PACKET_SAMPLES : Fields(tx')[i] > ADCReading(start_reads)
             \/ \A i \in 1..PACKET_SAMPLES : Fields(tx')[i] <= ADCReading(LastReset)]_vars

\* C7: dual-mode image: simple_mode and stream_mode are never both true, and
\* no iteration of loop() hands over both a text line and a binary packet
C7_ModesExclusive ==
    /\ ~(simple_mode /\ stream_mode)
    /\ ~(iter_text /\ iter_packet)

\* C8: dual-mode image, START_STREAM dispatched after START_SIMPLE with no stop
\* in between: when it has returned stream_mode is true and simple_mode false,
\* and from then on no text line is handed over
C8_NoTextAfterSwitch ==
    /\ [](switch_phase = "switched" => (stream_mode /\ ~simple_mode))
    /\ [][HandsText => switch_phase # "switched"]_vars

\* C9: when onDisconnect has returned every streaming flag is false, and while
\* connected no sample is acquired and nothing is handed over unless a START,
\* START_SIMPLE or START_STREAM was dispatched since the last disconnect
C9_IdleAfterDisconnect ==
    /\ []((~deviceConnected /\ ble_pc = "idle") =>
            (~streaming /\ ~simple_mode /\ ~stream_mode))
    /\ [][((Acquires \/ HandsPacket \/ HandsText) /\ deviceConnected) => armed]_vars

\* the single-mode image streamed, lost the connection, got it back, and loop()
\* is testing the streaming flag
C9_Witness ==
    /\ variant = "single"
    /\ reads > 0
    /\ deviceConnected
    /\ ~armed
    /\ ble_pc = "idle"
    /\ loop_pc = "streaming"

\* C10: a packet handed over after another one of the same session (no START*,
\* STOP* or disconnect dispatched and no START* returned in between) carries
\* the id after it: one more, or 1 after 255
C10_IdsInOrder ==
    [][(HandsPacket /\ prev_id # -1) =>
          tx'[3] = (IF prev_id = 255 THEN 1 ELSE prev_id + 1)]_vars


\* a step of the timed model in which a command is handled
HandlesCommand == cmds' = cmds + 1

\* C11: a START, START_SIMPLE or START_STREAM handled while its mode is already
\* active puts the counters of that mode back to their initial values, in the
\* BLE images and in the serial ones
C11_RestartOnRedundantStart ==
    [][HandlesCommand =>
          /\ (variant = "single" /\ cmd' = "START" /\ streaming) =>
                (packet_id' = 1 /\ sample_index' = 0 /\ total_sample_count' = 0)
          /\ (variant = "dual" /\ cmd' = "START_SIMPLE" /\ simple_mode) =>
                simple_counter' = 1
          /\ (variant = "dual" /\ cmd' = "START_STREAM" /\ stream_mode) =>
                (packet_id' = 1 /\ stream_sample_counter' = 1)
          /\ (variant \in { "usb", "recorder" } /\ cmd' = "START" /\ is_recording) =>
                sample_count' = 0]_vars

\* the interval of the mode that is active (timer units of the image)
ActiveInterval ==
    IF variant = "dual"
    THEN (IF simple_mode THEN SIMPLE_INTERVAL_MS ELSE STREAM_INTERVAL_MS)
    ELSE SAMPLE_INTERVAL_US

\* a step of the timed model that emits the first sample, packet or text line
\* after a START*
EmitsFirst == since_sample = -1 /\ since_sample' = 0

\* C13: handling START, START_SIMPLE or START_STREAM stores the current time in
\* the cadence reference of the started mode, and the first sample, packet or
\* text line after it comes at least one interval after the command was handled
C13_FirstEmissionAfterInterval ==
    /\ [][HandlesCommand =>
            /\ (variant \in { "single", "usb", "recorder" } /\ cmd' = "START") =>
                  last_sample_time' = timer'
            /\ (variant = "dual" /\ cmd' = "START_SIMPLE") => last_simple_time' = clock'
            /\ (variant = "dual" /\ cmd' = "START_STREAM") => last_stream_time' = clock']_vars
    /\ [][EmitsFirst => since_start >= ActiveInterval]_vars

\* the payloads CommandCallbacks::onWrite of the image acts on
Recognized ==
    IF variant = "single" THEN { "START", "STOP" }
    ELSE { "START_SIMPLE", "STOP_SIMPLE", "START_STREAM", "STOP_STREAM" }

\* mode flags, sequence id, cursor, counters and cadence timestamps
Controller ==
    << deviceConnected, streaming, simple_mode, stream_mode, is_recording, packet_id,
       sample_index, total_sample_count, simple_counter, stream_sample_counter,
       sample_count, last_simple_time, last_stream_time, last_sample_time >>

Idle ==
    IF variant = "usb" THEN ~is_recording
    ELSE deviceConnected /\ ~streaming /\ ~simple_mode /\ ~stream_mode

\* the stop commands of the image
StopCommands ==
    IF variant = "dual" THEN { "STOP_SIMPLE", "STOP_STREAM" } ELSE { "STOP" }

\* C15: single-mode, dual-mode and USB images: handling STOP, STOP_SIMPLE or
\* STOP_STREAM while idle leaves every variable of the controller as it was
\* and hands nothing to the transport
C15_StopWhileIdle ==
    [][(/\ HandlesCommand
        /\ variant \in { "single", "dual", "usb" }
        /\ Idle
        /\ cmd' \in StopCommands) =>
          (UNCHANGED Controller /\ tx_kind' = "none" /\ tx' = << >>)]_vars

\* the USB streamer took STOP as its first command, some time after boot
C15_Witness ==
    /\ variant = "usb"
    /\ cmd = "STOP"
    /\ cmds = 1
    /\ ticks > 0
    /\ ~is_recording
    /\ tx_kind = "none"

\* C16: an iteration of loop() takes at most one sample; it takes one only when
\* micros() - last_sample_time >= the interval; afterwards last_sample_time is
\* the value of the timer at that iteration; and two consecutive samples,
\* packets or lines of a session are at least one interval apart
C16_SampleCadence ==
    /\ [][(fired' /\ variant = "single") =>
             total_sample_count' = total_sample_count + 1]_vars
    /\ [][(fired' /\ variant \in { "usb", "recorder" }) =>
             sample_count' \in { sample_count + 1, 1, 0 }]_vars
    /\ [][(fired' /\ variant # "dual") =>
             (SampleDue /\ last_sample_time' = timer')]_vars
    /\ [][fired' => (since_sample = -1 \/ since_sample >= ActiveInterval)]_vars

\* C17: micros() being a 32-bit counter that wraps to 0: while the time since
\* the instant last_sample_time stands for is below 2^32, the unsigned
\* difference micros() - last_sample_time is that time, and the time test
\* passes exactly when that time has reached the interval, whether or not the
\* counter wrapped in between, with last_sample_time = micros() and with
\* last_sample_time += SAMPLE_INTERVAL_US alike
C17_WrapSafe ==
    (variant # "dual" /\ age.hi < W16) =>
        /\ Sub32(timer, last_sample_time) = age
        /\ SampleDue <=> Ge32(age, U32(SAMPLE_INTERVAL_US))

\* the single-mode image took its second sample after micros() wrapped to 0
\* since the first one
C17_Witness ==
    /\ variant = "single"
    /\ streaming
    /\ fired
    /\ total_sample_count = 2
    /\ timer.hi = 0
    /\ age = U32(0)

\* C18: a text line handed over while no command is being handled carries the
\* index 1 if it is the first line since the last START_SIMPLE was written, and
\* the index of the line before it plus 1 otherwise
C18_MessageIndex ==
    [][(HandsText /\ ~InCallback) =>
          tx' = buildSimpleMessage(MSG_BUF_SIZE, session_lines + 1)]_vars

\* ids strictly between id a and a later id b of the cycle 1, 2, ..., 255, 1, ...
IdGap(a, b) == (b - a - 1 + 255) % 255

\* C19: handlers run one at a time: whether or not the transport delivers a
\* packet, building it advances the sequence counter by one (255 to 1) and, in
\* the single-mode image, leaves the cursor at 0; so a delivered packet follows
\* the last delivered one of the session with as many ids skipped as packets
\* were not delivered in between
C19_NoRollback ==
    [][BuildsPacket =>
          /\ packet_id' = (IF packet_id = 255 THEN 1 ELSE packet_id + 1)
          /\ tx'[3] = packet_id
          /\ variant = "single" => sample_index' = 0
          /\ (undelivered' = 0 /\ delivered_id # -1) =>
                IdGap(delivered_id, tx'[3]) = undelivered]_vars

\* the single-mode image: packet 1 was delivered, packets 2 and 3 were not; the
\* sequence counter stands at 4 and the cursor at 0
C19_Witness ==
    /\ variant = "single"
    /\ tx_kind = "packet"
    /\ tx[3] = 3
    /\ delivered_id = 1
    /\ undelivered = 2
    /\ total_sample_count = 3 * PACKET_SAMPLES
    /\ packet_id = 4
    /\ sample_index = 0

\* sendPacket(): packet_size, the length of the packet array (28, the buffer
\* size buildBinaryPacket() asks for)
PACKET_SIZE == 2 + 1 + 4 + (PACKET_SAMPLES * 2) + 1

\* C20: whatever the samples, the id and the timestamp, a packet handed to the
\* transport has the length of the packet array, 28 bytes: the end marker is
\* its last byte, written at index 27, and no byte lies beyond the array
C20_PacketLength ==
    tx_kind = "packet" =>
        /\ PACKET_SIZE = 28
        /\ Len(tx) = PACKET_SIZE
        /\ DOMAIN tx = 1..PACKET_SIZE
        /\ tx[Len(tx)] = END_MARKER

\* sendPacket() has built a packet from ten samples of 65535 with id 255
C20_Witness ==
    /\ variant = "single"
    /\ tx_kind = "packet"
    /\ packet_buffer = [i \in 1..PACKET_SAMPLES |-> 65535]
    /\ tx[3] = 255
    /\ Len(tx) = 28
    /\ \A i \in 1..PACKET_SAMPLES : SampleField(tx, i) = 4095

\* the stabilization delay of startStreaming() is running, and the iteration of
\* loop() in progress, if any, began after the delay did
Stabilizing == variant = "single" /\ ble_pc = "start_delay" /\ ~overlapped

\* C21: single-mode image: while the stabilization delay of a START is running
\* no iteration of loop() that began during the delay acquires a sample or
\* hands over a packet, whatever the state the START was received in
C21_QuietDuringDelay ==
    [][Stabilizing => ~(Acquires \/ HandsPacket)]_vars

\* a step of the timed model in which onDisconnect runs
Disconnects == deviceConnected /\ ~deviceConnected'

\* C22: BLE images and USB streamer: when STOP, STOP_SIMPLE or STOP_STREAM has
\* been handled, and when onDisconnect has run, the cursor is 0 and the
\* sequence id and the counters of the stopped mode have the values a start
\* gives them (for the sequence id of the single-mode image, also the 0 of its
\* initialiser)
C22_ResetOnStop ==
    /\ [][(HandlesCommand /\ cmd' \in StopCommands /\ variant = "single") =>
            (sample_index' = 0 /\ packet_id' \in { 0, 1 } /\ total_sample_count' = 0)]_vars
    /\ [][(HandlesCommand /\ cmd' = "STOP_SIMPLE" /\ variant = "dual") =>
            simple_counter' = 1]_vars
    /\ [][(HandlesCommand /\ cmd' = "STOP_STREAM" /\ variant = "dual") =>
            (packet_id' = 1 /\ stream_sample_counter' = 1)]_vars
    /\ [][(HandlesCommand /\ cmd' = "STOP" /\ variant = "usb") => sample_count' = 0]_vars
    /\ [][(Disconnects /\ variant = "single") =>
            (sample_index' = 0 /\ packet_id' \in { 0, 1 } /\ total_sample_count' = 0)]_vars
    /\ [][(Disconnects /\ variant = "dual") =>
            (simple_counter' = 1 /\ packet_id' = 1 /\ stream_sample_counter' = 1)]_vars

\* C23: BLE images: every step in which loop() hands a packet or a text line
\* to notify() is taken while deviceConnected is true
C23_NotifyWhileConnected ==
    [][(HandsPacket \/ HandsText) => deviceConnected]_vars

\* C24: dual-mode image: handling START_STREAM or STOP_STREAM and sending a
\* binary packet leave simple_counter as it was; handling START_SIMPLE or
\* STOP_SIMPLE and sending a text line leave packet_id and
\* stream_sample_counter as they were
C24_CountersIndependent ==
    /\ [][(/\ variant = "dual"
           /\ \/ HandlesCommand /\ cmd' \in { "START_STREAM", "STOP_STREAM" }
              \/ fired' /\ tx_kind' = "packet") => UNCHANGED simple_counter]_vars
    /\ [][(/\ variant = "dual"
           /\ \/ HandlesCommand /\ cmd' \in { "START_SIMPLE", "STOP_SIMPLE" }
              \/ fired' /\ tx_kind' = "text") =>
             UNCHANGED << packet_id, stream_sample_counter >>]_vars

\* a text line was sent, START_STREAM was handled and a packet was sent: the
\* message index is still 2
C24_Witness ==
    /\ variant = "dual"
    /\ cmd = "START_STREAM"
    /\ fired
    /\ tx_kind = "packet"
    /\ packet_id = 2
    /\ simple_counter = 2

\* C25: dual-mode image: handling STOP_SIMPLE while stream mode is active leaves
\* stream_mode true and packet_id, stream_sample_counter and last_stream_time
\* as they were; handling STOP_STREAM while simple mode is active leaves
\* simple_mode true and simple_counter and last_simple_time as they were
C25_OtherStopIgnored ==
    /\ [][(variant = "dual" /\ HandlesCommand /\ cmd' = "STOP_SIMPLE" /\ stream_mode) =>
            /\ stream_mode'
            /\ UNCHANGED << packet_id, stream_sample_counter, last_stream_time >>]_vars
    /\ [][(variant = "dual" /\ HandlesCommand /\ cmd' = "STOP_STREAM" /\ simple_mode) =>
            /\ simple_mode'
            /\ UNCHANGED << simple_counter, last_simple_time >>]_vars

\* STOP_SIMPLE was handled after the first packet of a stream session, and
\* the session goes on
C25_Witness ==
    /\ variant = "dual"
    /\ cmd = "STOP_SIMPLE"
    /\ cmds = 2
    /\ stream_mode
    /\ packet_id = 2
    /\ stream_sample_counter = PACKET_SAMPLES + 1

\* C26: dual-mode image: a binary packet is handed over at least 40 ms after
\* START_STREAM was handled and after the packet before it, a text line at
\* least 2000 ms after START_SIMPLE was handled and after the line before it,
\* and an iteration of loop() hands over at most one packet and one text line
C26_RateLimited ==
    /\ [][(variant = "dual" /\ HandsPacket) =>
            /\ since_start >= STREAM_INTERVAL_MS
            /\ since_sample = -1 \/ since_sample >= STREAM_INTERVAL_MS
            /\ ~iter_packet]_vars
    /\ [][(variant = "dual" /\ HandsText) =>
            /\ since_start >= SIMPLE_INTERVAL_MS
            /\ since_sample = -1 \/ since_sample >= SIMPLE_INTERVAL_MS
            /\ ~iter_text]_vars

\* C27: 30 s recorder, loop() polled again and again: a recording ends by
\* itself; it ends at the sample that is the TOTAL_SAMPLES-th since the START
\* that began it, with is_recording false and sample_count 0; no sample is
\* taken while is_recording is false; and a START handled while recording
\* leaves the recording and its count as they were
C27_RecordingEnds ==
    /\ [][(variant = "recorder" /\ is_recording /\ ~is_recording') =>
            (reads' - start_reads' = TOTAL_SAMPLES /\ sample_count' = 0)]_vars
    /\ [][(variant = "recorder" /\ reads' - start_reads' = TOTAL_SAMPLES
           /\ reads' # reads) => ~is_recording']_vars
    /\ [][(variant = "recorder" /\ reads' # reads) =>
            (is_recording /\ reads' = reads + 1)]_vars
    /\ [][(variant = "recorder" /\ is_recording /\ HandlesCommand /\ cmd' = "START") =>
            /\ start_reads' = start_reads
            /\ sample_count' = sample_count + (reads' - reads) \/ ~is_recording']_vars
    /\ (variant = "recorder" /\ is_recording) ~> ~is_recording

\* a recording of 7500 samples has ended by itself
C27_Witness ==
    /\ variant = "recorder"
    /\ ~is_recording
    /\ sample_count = 0
    /\ reads - start_reads = TOTAL_SAMPLES
    /\ fired
    /\ tx_kind = "serial"

\* C28: in the USB streamer, a STOP command that is received, and the loss of the
\* connection to the host, each leave is_recording false, and no sample line is
\* emitted from then on until a new START is accepted
C28_StopsOnStopOrLoss ==
    /\ [][(variant = "usb" /\ HandlesCommand /\ cmd' = "STOP") => ~is_recording']_vars
    /\ [][(variant = "usb" /\ host_connected /\ ~host_connected') => ~is_recording']_vars
    /\ [][(variant = "usb" /\ ~host_connected) => reads' = reads]_vars
    /\ [][(variant = "usb" /\ ~is_recording /\ ~(HandlesCommand /\ cmd' = "START"))
            => reads' = reads]_vars

\* C29 as stated: the synthetic source replays its table cyclically; streaming
\* ends only on STOP, and the sample streamed after the last table entry is the
\* first table entry
C29_ReplaysCyclically ==
    /\ [][(variant = "synth" /\ streaming /\ ~streaming')
            => (HandlesCommand /\ cmd' = "STOP")]_vars
    /\ [][(variant = "synth" /\ fired' /\ at_read.sampleCounter = TableLen - 1)
            => at_read'.sampleCounter = 0]_vars

\* C29, amended: after a START the synthetic source streams the table once, entry
\* by entry from the first; streaming ends on STOP or, by itself, in the iteration
\* after the last entry was streamed, and nothing is streamed after the last entry
\* until a new START
C29_StreamsTableOnce ==
    /\ [][(variant = "synth" /\ fired')
            => /\ at_read'.sampleCounter = IF HandlesCommand /\ cmd' = "START" THEN 0
                                           ELSE at_read.sampleCounter + 1
               /\ at_read'.sampleCounter \in DOMAIN ecg_beat_digital
               /\ buffer'[at_read'.bufferIndex] = ecg_beat_digital[at_read'.sampleCounter]]_vars
    /\ [][(variant = "synth" /\ streaming /\ ~streaming')
            => \/ HandlesCommand /\ cmd' = "STOP"
               \/ at_read.sampleCounter = TableLen - 1 /\ ~fired']_vars
    /\ [][(variant = "synth" /\ at_read.sampleCounter = TableLen - 1
            /\ ~(HandlesCommand /\ cmd' = "START"))
            => ~fired' /\ ~streaming']_vars

\* the whole table was streamed after a single START and the stream ended by itself
C29_Witness ==
    /\ variant = "synth"
    /\ cmd = "START" /\ cmds = 1
    /\ at_read.sampleCounter = TableLen - 1
    /\ packets = PACKETS
    /\ ~streaming /\ ~fired /\ tx_kind = "status"

\* C30: in the synthetic streamer the table has 400 entries; at every table read
\* sampleCounter = 10 * (packets - 1) + bufferIndex with 0 <= bufferIndex < 10, so
\* the index read is below 400 and the buffer slot written is one of its 10; the
\* relation also holds between two iterations of loop()
C30_IndexInBounds ==
    variant = "synth" =>
        /\ TableLen = 400
        /\ sampleCounter = SYNTH_PACKET_SIZE * (packets - 1) + bufferIndex
        /\ bufferIndex \in 0..(SYNTH_PACKET_SIZE - 1)
        /\ fired =>
            /\ at_read.sampleCounter
                 = SYNTH_PACKET_SIZE * (at_read.packets - 1) + at_read.bufferIndex
            /\ at_read.bufferIndex \in 0..(SYNTH_PACKET_SIZE - 1)
            /\ at_read.bufferIndex \in DOMAIN buffer
            /\ at_read.sampleCounter \in 0..(TableLen - 1)

\* the last table entry is read into the last slot of packet 40, in a stream
\* started by the third command
C30_Witness ==
    /\ variant = "synth"
    /\ fired
    /\ cmd = "START" /\ cmds = 3
    /\ at_read = [sampleCounter |-> 399, packets |-> 40, bufferIndex |-> 9]
    /\ tx_kind = "packet"

====
